---- MODULE Spec2Model ----
(***************************************************************************)
(* Verification model of the JSM district report aggregation and ranking  *)
(* engine: analyze_district_kpis.py, analyze_farm_ponds.py,               *)
(* analyze_dugwell.py, utils.py and the grading helpers of                *)
(* jsm_dashboard_generator.py.                                            *)
(*                                                                         *)
(* Numbers are exact fixed-point values counted in thousandths (Scale), so *)
(* that rounding to 2 decimals is an observable operation.  A Python      *)
(* value is a record [t, v]: t is the kind of the value, v its payload in  *)
(* thousandths (0 when the kind carries none).                             *)
(***************************************************************************)
EXTENDS Integers, Sequences, FiniteSets, TLC

Scale == 1000

-----------------------------------------------------------------------------
(* Python values                                                           *)

PyNone == [t |-> "none", v |-> 0]
NaN == [t |-> "nan", v |-> 0]
PosInf == [t |-> "inf", v |-> 0]
NegInf == [t |-> "ninf", v |-> 0]
\* a list or a dict: a value that float() and int() reject with TypeError
PyOther == [t |-> "other", v |-> 0]
\* the strings 'inf', 'nan' and a string that is no number at all
StrInf == [t |-> "str_inf", v |-> 0]
StrNan == [t |-> "str_nan", v |-> 0]
StrBad == [t |-> "str_bad", v |-> 0]
\* the sentinel string "N/A"
NA == [t |-> "na", v |-> 0]

\* int n
PyInt(n) == [t |-> "int", v |-> n * Scale]
\* float of m thousandths
PyFloat(m) == [t |-> "float", v |-> m]
\* a string holding an integer literal, e.g. "12"
StrInt(n) == [t |-> "str_int", v |-> n * Scale]
\* a string holding a decimal literal, e.g. "12.5"
StrDec(m) == [t |-> "str_dec", v |-> m]

ValueError == [t |-> "ValueError", v |-> 0]
TypeError == [t |-> "TypeError", v |-> 0]
OverflowError == [t |-> "OverflowError", v |-> 0]

IsExc(x) == x.t \in {"ValueError", "TypeError", "OverflowError"}

\* isinstance(x, (int, float))
IsNumber(x) == x.t \in {"int", "float", "nan", "inf", "ninf"}
\* isinstance(x, int)
IsInt(x) == x.t = "int"
\* isinstance(x, (int, float)) and not math.isnan(x) and not math.isinf(x)
IsFinite(x) == x.t \in {"int", "float"}

Abs(n) == IF n < 0 THEN -n ELSE n

\* truncation toward zero to a whole number of units
Trunc(m) == IF m >= 0 THEN (m \div Scale) * Scale ELSE -(((-m) \div Scale) * Scale)

\* round(num/den, 2) of an exact quotient of thousandths (den > 0):
\* the nearest multiple of 10 thousandths, an exact tie going to the even
\* hundredth
RoundQ2(num, den) ==
    LET q == num \div (10 * den)
        r == num - q * 10 * den
    IN  IF 2 * r < 10 * den THEN q * 10
        ELSE IF 2 * r > 10 * den THEN (q + 1) * 10
        ELSE IF q % 2 = 0 THEN q * 10 ELSE (q + 1) * 10

\* round(x, 2) of a float of m thousandths
Round2(m) == RoundQ2(m, 1)

\* round(num/den, 0) (den > 0): nearest whole unit, an exact tie going to
\* the even unit
RoundQ0(num, den) ==
    LET q == num \div (Scale * den)
        r == num - q * Scale * den
    IN  IF 2 * r < Scale * den THEN q * Scale
        ELSE IF 2 * r > Scale * den THEN (q + 1) * Scale
        ELSE IF q % 2 = 0 THEN q * Scale ELSE (q + 1) * Scale

\* float(x)
PyFloatOf(x) ==
    CASE x.t \in {"int", "float", "str_int", "str_dec"} -> PyFloat(x.v)
      [] x.t \in {"nan", "str_nan"} -> NaN
      [] x.t \in {"inf", "str_inf"} -> PosInf
      [] x.t = "ninf" -> NegInf
      [] x.t \in {"str_bad", "na"} -> ValueError
      [] OTHER -> TypeError

\* int(x)
PyIntOf(x) ==
    CASE x.t \in {"int", "str_int"} -> [t |-> "int", v |-> x.v]
      [] x.t = "float" -> [t |-> "int", v |-> Trunc(x.v)]
      [] x.t \in {"inf", "ninf"} -> OverflowError
      [] x.t \in {"nan", "str_dec", "str_inf", "str_nan", "str_bad", "na"} -> ValueError
      [] OTHER -> TypeError

\* x < y and x == y on numbers; every comparison with NaN is false
PyLt(x, y) ==
    CASE x.t = "nan" \/ y.t = "nan" -> FALSE
      [] x.t = "ninf" -> y.t # "ninf"
      [] x.t = "inf" -> FALSE
      [] y.t = "ninf" -> FALSE
      [] y.t = "inf" -> TRUE
      [] OTHER -> x.v < y.v

PyEq(x, y) ==
    CASE x.t = "nan" \/ y.t = "nan" -> FALSE
      [] IsFinite(x) /\ IsFinite(y) -> x.v = y.v
      [] OTHER -> x.t = y.t

\* _safe_convert(value, target_type, default); target_type is "int" or "float"
_safe_convert(value, target_type, default) ==
    IF value = PyNone THEN default
    ELSE LET converted == IF target_type = "float" THEN PyFloatOf(value) ELSE PyIntOf(value)
         IN  IF converted.t \in {"ValueError", "TypeError"} THEN default
             ELSE IF IsExc(converted) THEN converted
             ELSE IF target_type = "float" /\ converted.t \in {"nan", "inf", "ninf"} THEN default
             ELSE converted

-----------------------------------------------------------------------------
(* list helpers                                                            *)

Reverse(s) == [i \in 1..Len(s) |-> s[Len(s) + 1 - i]]

RECURSIVE InsertAsc(_, _, _)
\* insert x into the ascending run s from the right, stopping at the first
\* element that x is not smaller than (stable)
InsertAsc(s, x, j) ==
    IF j >= 1 /\ PyLt(x.key, s[j].key) THEN InsertAsc(s, x, j - 1)
    ELSE SubSeq(s, 1, j) \o <<x>> \o SubSeq(s, j + 1, Len(s))

RECURSIVE SortAscFrom(_, _, _)
SortAscFrom(s, i, acc) ==
    IF i > Len(s) THEN acc
    ELSE SortAscFrom(s, i + 1, InsertAsc(acc, s[i], Len(acc)))

\* list.sort(key=...) on a sequence of [key, item] pairs
SortAsc(s) == SortAscFrom(s, 1, <<>>)
\* list.sort(key=..., reverse=True): stable, equal keys keep their order
SortDesc(s) == Reverse(SortAsc(Reverse(s)))

-----------------------------------------------------------------------------
(* utils.py                                                                *)

\* safe_get(data, [key], default) once data[key] has been looked up: a
\* missing key reads as None, and None or a float NaN give the default
safe_get(value, default) ==
    IF value = PyNone \/ value.t = "nan" THEN default ELSE value

\* entity names as they arrive: a string, null/missing, or a non-string
NoName == [t |-> "none", s |-> ""]
NonStrName == [t |-> "int", s |-> ""]
NameStr(str) == [t |-> "str", s |-> str]

\* bool(name) for a name value
NameTruthy(name) == name.t = "int" \/ (name.t = "str" /\ name.s # "")

\* str.strip().upper() on the names that occur
StripUpper(str) ==
    CASE str \in {"BHOPAL", "Bhopal", "bhopal", " BHOPAL "} -> "BHOPAL"
      [] str \in {"INDORE", "Indore", " indore"} -> "INDORE"
      [] str \in {"SAGAR", "Sagar"} -> "SAGAR"
      [] str \in {"UJJAIN", "Ujjain"} -> "UJJAIN"
      [] str \in {"", " ", "  "} -> ""

\* the valid_entries loop of get_top_bottom_by_field on a list of
\* [key, name, item] triples: the value is an int or float, not NaN, and the
\* name is truthy
ExtremaValid(e) == IsNumber(e.key) /\ e.key.t # "nan" /\ NameTruthy(e.name)

\* get_top_bottom_by_field(data_list, field_key, name_key, higher_is_better)
\* on a list of [key, name, item] triples; top and bottom are items or None
get_top_bottom_by_field(data_list, higher_is_better) ==
    LET valid_entries == SelectSeq(data_list, ExtremaValid)
        sorted == IF higher_is_better THEN SortDesc(valid_entries) ELSE SortAsc(valid_entries)
    IN  IF Len(data_list) = 0 \/ Len(valid_entries) = 0
        THEN [found |-> FALSE, top |-> PyNone, bottom |-> PyNone]
        ELSE [found |-> TRUE, top |-> sorted[1].item, bottom |-> sorted[Len(sorted)].item]

-----------------------------------------------------------------------------
(* statistics                                                              *)

RECURSIVE SumV(_)
SumV(s) == IF Len(s) = 0 THEN 0 ELSE s[1].v + SumV(Tail(s))

\* statistics.mean of a non-empty list of numbers, as an exact quotient
\* [num, den]; nan marks a NaN result, inf = 1 / -1 an infinite one
MeanQ(data) ==
    LET hasNan == \E i \in 1..Len(data) : data[i].t = "nan"
        hasPos == \E i \in 1..Len(data) : data[i].t = "inf"
        hasNeg == \E i \in 1..Len(data) : data[i].t = "ninf"
        fin == SelectSeq(data, IsFinite)
    IN  IF hasNan \/ (hasPos /\ hasNeg) THEN NaN
        ELSE IF hasPos THEN PosInf
        ELSE IF hasNeg THEN NegInf
        ELSE [t |-> "q", num |-> SumV(fin), den |-> Len(fin)]

\* sorted(data)
SortedValues(data) ==
    LET keyed == [i \in 1..Len(data) |-> [key |-> data[i], item |-> data[i]]]
        sorted == SortAsc(keyed)
    IN  [i \in 1..Len(sorted) |-> sorted[i].item]

\* the largest magnitude, in thousandths, that a float of the model holds:
\* a sum beyond it overflows to an infinity, as a sum of doubles does beyond
\* sys.float_info.max
FloatMax == 100000000

\* a finite float so large that the sum of two of them overflows
Huge == PyFloat(FloatMax - 10000000)

\* x + y on floats
PyAdd(x, y) ==
    CASE x.t = "nan" \/ y.t = "nan" -> NaN
      [] x.t = "inf" -> IF y.t = "ninf" THEN NaN ELSE PosInf
      [] x.t = "ninf" -> IF y.t = "inf" THEN NaN ELSE NegInf
      [] y.t \in {"inf", "ninf"} -> y
      [] x.v + y.v > FloatMax -> PosInf
      [] x.v + y.v < -FloatMax -> NegInf
      [] OTHER -> PyFloat(x.v + y.v)

\* x / den as an exact quotient, x itself when it is not finite
QuotientOf(x, den) == IF IsFinite(x) THEN [t |-> "q", num |-> x.v, den |-> den] ELSE x

\* the middle element of sorted data of odd length, the mean of the two
\* middle elements otherwise
MiddleQ(sorted) ==
    IF Len(sorted) % 2 = 1 THEN QuotientOf(sorted[Len(sorted) \div 2 + 1], 1)
    ELSE QuotientOf(PyAdd(sorted[Len(sorted) \div 2], sorted[Len(sorted) \div 2 + 1]), 2)

\* statistics.median of a non-empty list, as an exact quotient like MeanQ
MedianQ(data) == MiddleQ(SortedValues(data))

\* round(q, 2) of a MeanQ/MedianQ result; allInt says that the statistic is
\* an int when it is whole (a mean of ints, the middle element of ints)
RoundStat2(q, allInt) ==
    IF q.t # "q" THEN q
    ELSE IF allInt /\ q.num % (q.den * Scale) = 0 THEN [t |-> "int", v |-> q.num \div q.den]
    ELSE PyFloat(RoundQ2(q.num, q.den))

\* round(q, 0) of a MeanQ/MedianQ result
RoundStat0(q, allInt) ==
    IF q.t # "q" THEN q
    ELSE IF allInt /\ q.num % (q.den * Scale) = 0 THEN [t |-> "int", v |-> q.num \div q.den]
    ELSE PyFloat(RoundQ0(q.num, q.den))

AllInt(data) == \A i \in 1..Len(data) : data[i].t = "int"

\* _calculate_stats(data_list) of analyze_district_kpis.py
_calculate_stats(data_list) ==
    LET valid_data == SelectSeq(data_list, IsFinite)
    IN  IF Len(valid_data) = 0
        THEN [average |-> PyNone, median |-> PyNone, count |-> 0]
        ELSE [average |-> RoundStat2(MeanQ(valid_data), AllInt(valid_data)),
              median |-> RoundStat2(MedianQ(valid_data),
                                    AllInt(valid_data) /\ Len(valid_data) % 2 = 1),
              count |-> Len(valid_data)]

-----------------------------------------------------------------------------
(* analyze_district_kpis.py: rank calculation                              *)

\* upper bound on the number of districts in one state-wide list
MaxDistricts == 3

DistrictNames == {"BHOPAL", "INDORE", "SAGAR", "UJJAIN"}

\* the dict `ranks` with one more key
PutRank(ranks, name, r) ==
    [n \in DOMAIN ranks \cup {name} |-> IF n = name THEN r ELSE ranks[n]]

\* the empty dict
EmptyMap == [n \in {} |-> 0]

\* the test of the filter loop of calculate_ranks: total_marks is an int or
\* a float and neither NaN nor infinite
ValidTotalNotNone(data) == data.total_marks # PyNone

ValidTotal(data) == IsFinite(data.total_marks)

RECURSIVE RankWalkDense(_, _, _, _, _, _)
RankWalkDense(sorted_districts, i, current_rank, last_score, districts_at_rank, ranks) ==
    IF i > Len(sorted_districts) THEN ranks
    ELSE LET dist_name == sorted_districts[i].name
             current_score == sorted_districts[i].total_marks
             changed == ~PyEq(current_score, last_score)
             rank1 == IF changed /\ districts_at_rank > 0 THEN current_rank + 1 ELSE current_rank
             at1 == IF changed THEN 1 ELSE districts_at_rank + 1
         IN  RankWalkDense(sorted_districts, i + 1, rank1, current_score, at1,
                           IF dist_name # "" THEN PutRank(ranks, dist_name, rank1 + 1) ELSE ranks)

RECURSIVE RankWalk(_, _, _, _, _, _)
\* the for loop of calculate_ranks over the sorted districts
RankWalk(sorted_districts, i, current_rank, last_score, districts_at_rank, ranks) ==
    IF i > Len(sorted_districts) THEN ranks
    ELSE LET dist_name == sorted_districts[i].name
             current_score == sorted_districts[i].total_marks
             changed == ~PyEq(current_score, last_score)
             rank1 == IF changed THEN current_rank + districts_at_rank ELSE current_rank
             at1 == IF changed THEN 1 ELSE districts_at_rank + 1
         IN  RankWalk(sorted_districts, i + 1, rank1,
                      IF changed THEN current_score ELSE last_score, at1,
                      IF dist_name # "" THEN PutRank(ranks, dist_name, rank1 + 1) ELSE ranks)

\* the districts sorted by ascending total_marks before the ranks are
\* assigned
calculate_ranks_ascending(processed_state_data) ==
    LET valid_entries == SelectSeq(processed_state_data, ValidTotal)
        keyed == [i \in 1..Len(valid_entries) |->
                     [key |-> valid_entries[i].total_marks, item |-> valid_entries[i]]]
        sorted == SortAsc(keyed)
        sorted_districts == [i \in 1..Len(sorted) |-> sorted[i].item]
    IN  IF Len(processed_state_data) = 0 \/ Len(valid_entries) = 0 THEN EmptyMap
        ELSE RankWalk(sorted_districts, 1, 0, NegInf, 0, EmptyMap)

\* calculate_ranks(processed_state_data); the dict is the sequence of its
\* values in insertion order
calculate_ranks(processed_state_data) ==
    LET valid_entries == SelectSeq(processed_state_data, ValidTotal)
        keyed == [i \in 1..Len(valid_entries) |->
                     [key |-> valid_entries[i].total_marks, item |-> valid_entries[i]]]
        sorted == SortDesc(keyed)
        sorted_districts == [i \in 1..Len(sorted) |-> sorted[i].item]
    IN  IF Len(processed_state_data) = 0 \/ Len(valid_entries) = 0 THEN EmptyMap
        ELSE RankWalk(sorted_districts, 1, 0, NegInf, 0, EmptyMap)

-----------------------------------------------------------------------------
(* analyze_district_kpis.py: day-over-day changes                          *)

\* change of two floats that passed _safe_convert: int when whole,
\* round(change, 2) otherwise
ChangeOf(num_current, num_previous) ==
    LET change == num_current.v - num_previous.v
    IN  IF change = Trunc(change) THEN [t |-> "int", v |-> Trunc(change)]
        ELSE PyFloat(Round2(change))

_calculate_change_zero_default(current_val, previous_val) ==
    LET num_current == _safe_convert(current_val, "float", PyFloat(0))
        num_previous == _safe_convert(previous_val, "float", PyFloat(0))
    IN  ChangeOf(num_current, num_previous)

_calculate_change_reversed(current_val, previous_val) ==
    LET num_current == _safe_convert(current_val, "float", PyNone)
        num_previous == _safe_convert(previous_val, "float", PyNone)
    IN  IF num_current = PyNone \/ num_previous = PyNone THEN PyNone
        ELSE ChangeOf(num_previous, num_current)

\* _calculate_change(current_val, previous_val)
_calculate_change(current_val, previous_val) ==
    LET num_current == _safe_convert(current_val, "float", PyNone)
        num_previous == _safe_convert(previous_val, "float", PyNone)
    IN  IF IsExc(num_current) THEN num_current
        ELSE IF IsExc(num_previous) THEN num_previous
        ELSE IF num_current = PyNone \/ num_previous = PyNone THEN PyNone
        ELSE ChangeOf(num_current, num_previous)

_calculate_rank_change_reversed(current_rank, previous_rank) ==
    IF current_rank = PyNone \/ previous_rank = PyNone THEN PyNone
    ELSE [t |-> "int", v |-> PyIntOf(current_rank).v - PyIntOf(previous_rank).v]

\* _calculate_rank_change(current_rank, previous_rank); a rank is an int
\* or None
_calculate_rank_change(current_rank, previous_rank) ==
    IF current_rank = PyNone \/ previous_rank = PyNone THEN PyNone
    ELSE LET p == PyIntOf(previous_rank)
             c == PyIntOf(current_rank)
         IN  IF p.t \in {"ValueError", "TypeError"} \/ c.t \in {"ValueError", "TypeError"}
             THEN PyNone
             ELSE IF IsExc(p) THEN p
             ELSE IF IsExc(c) THEN c
             ELSE [t |-> "int", v |-> p.v - c.v]

-----------------------------------------------------------------------------
(* analyze_district_kpis.py: fetching and combining the five components    *)

\* COMPONENTS_CONFIG, in dict order
COMPONENTS == <<"performance", "farm_ponds", "dugwell", "amrit_sarovar", "mybharat">>

\* config.get("marks_key"), config.get("count_key"), config.get("target_key")
HasMarksKey(comp_key) == comp_key # "performance"
HasCountKey(comp_key) == comp_key # "performance"
HasTargetKey(comp_key) == comp_key = "mybharat"

\* COMPONENTS_CONFIG["performance"]["old_work_categories"]
OldWorkCategories ==
    <<"Talab Nirman", "Check_Stop Dam", "Recharge Pit", "Koop Nirman",
      "Percolation Talab", "Khet Talab", "Other NRM Work">>

\* a component that a district has no entry for: dist_data.get(comp) is None
NoEntry ==
    [present |-> FALSE, marks |-> PyNone, count |-> PyNone, target |-> PyNone,
     target_marks |-> PyNone, payment_marks |-> PyNone, old_work_completed |-> PyNone]

\* {"name": dist_name}
NewDistrict(dist_name) ==
    [name |-> dist_name, performance |-> NoEntry, farm_ponds |-> NoEntry,
     dugwell |-> NoEntry, amrit_sarovar |-> NoEntry, mybharat |-> NoEntry,
     total_marks |-> PyNone]

\* a raw list entry that is a dict; name is the value under the component's
\* name key, categories a dict (a list of `completed` values, one per old
\* work category) or something else
RawItem(name, marks, count, target, target_marks, payment_marks, categories) ==
    [t |-> "dict", name |-> name, marks |-> marks, count |-> count, target |-> target,
     target_marks |-> target_marks, payment_marks |-> payment_marks,
     categories |-> categories]

\* a raw list entry that is not a dict
NonDictItem ==
    [t |-> "other", name |-> NoName, marks |-> PyNone, count |-> PyNone, target |-> PyNone,
     target_marks |-> PyNone, payment_marks |-> PyNone, categories |-> PyNone]

CategoriesDict(completed) == [t |-> "dict", completed |-> completed]

RECURSIVE SumCompleted(_, _)
\* the for loop of _calculate_old_work_completed over the categories
SumCompleted(completed, i) ==
    IF i > Len(completed) THEN 0
    ELSE LET completed_val == safe_get(completed[i], PyInt(0))
             numeric_val == PyFloatOf(completed_val)
         IN  (IF IsFinite(numeric_val) THEN Trunc(numeric_val.v) ELSE 0)
                 + SumCompleted(completed, i + 1)

\* _calculate_old_work_completed(perf_data)
_calculate_old_work_completed(perf_data) ==
    LET categories_data == perf_data.categories
    IN  IF categories_data = PyNone THEN PyInt(0)
        ELSE IF categories_data.t # "dict" THEN PyInt(0)
        ELSE [t |-> "int", v |-> SumCompleted(categories_data.completed, 1)]

\* index of the district called dist_name in a processed map, 0 if none
IndexOfName(processed, dist_name) ==
    IF \E i \in 1..Len(processed) : processed[i].name = dist_name
    THEN CHOOSE i \in 1..Len(processed) : processed[i].name = dist_name
    ELSE 0

\* the component_entry built from one raw item (lines 161-182); an
\* exception of a conversion is kept in the field it occurred in
ComponentEntry(comp_key, item_data) ==
    [present |-> TRUE,
     marks |-> IF HasMarksKey(comp_key)
               THEN _safe_convert(safe_get(item_data.marks, PyNone), "float", PyFloat(0))
               ELSE PyNone,
     count |-> IF HasCountKey(comp_key)
               THEN _safe_convert(safe_get(item_data.count, PyNone), "int", PyInt(0))
               ELSE PyNone,
     target |-> IF HasTargetKey(comp_key)
                THEN _safe_convert(safe_get(item_data.target, PyNone), "int", PyInt(0))
                ELSE PyNone,
     target_marks |-> IF comp_key = "performance"
                      THEN _safe_convert(safe_get(item_data.target_marks, PyNone), "float", PyFloat(0))
                      ELSE PyNone,
     payment_marks |-> IF comp_key = "performance"
                       THEN _safe_convert(safe_get(item_data.payment_marks, PyNone), "float", PyFloat(0))
                       ELSE PyNone,
     old_work_completed |-> IF comp_key = "performance"
                            THEN _calculate_old_work_completed(item_data)
                            ELSE PyNone]

EntryRaises(e) ==
    IsExc(e.marks) \/ IsExc(e.count) \/ IsExc(e.target)
        \/ IsExc(e.target_marks) \/ IsExc(e.payment_marks)

\* the name test of the item loop (lines 151-156): the stripped, upper-cased
\* name, or "" when the item is skipped
ItemDistrictName(item_data) ==
    LET dist_name == safe_get(item_data.name, NoName)
    IN  IF item_data.t # "dict" THEN ""
        ELSE IF dist_name.t # "str" \/ dist_name.s = "" THEN ""
        ELSE StripUpper(dist_name.s)

\* one pass of the item loop (lines 147-185) on the map built so far;
\* st is [map, errors, raised]
ProcessItem(st, comp_key, item_data) ==
    LET dist_name == ItemDistrictName(item_data)
        k == IndexOfName(st.map, dist_name)
        map1 == IF k = 0 THEN Append(st.map, NewDistrict(dist_name)) ELSE st.map
        k1 == IF k = 0 THEN Len(map1) ELSE k
        component_entry == ComponentEntry(comp_key, item_data)
    IN  IF st.raised \/ dist_name = "" THEN st
        ELSE IF EntryRaises(component_entry)
        THEN [st EXCEPT !.map = map1, !.raised = TRUE]
        ELSE [st EXCEPT !.map = [map1 EXCEPT ![k1] = [@ EXCEPT ![comp_key] = component_entry]]]

RECURSIVE ProcessItems(_, _, _, _)
ProcessItems(st, comp_key, results_list, i) ==
    IF i > Len(results_list) THEN st
    ELSE ProcessItems(ProcessItem(st, comp_key, results_list[i]), comp_key, results_list, i + 1)

\* what fetch_api_data returned: nothing usable (None or an empty tree), a
\* tree whose results key holds something that is not a list, or a tree
\* with a result list (empty when the key is missing)
NullResponse == [kind |-> "null", results |-> <<>>]
NotListResponse == [kind |-> "notlist", results |-> <<>>]
ListResponse(items) == [kind |-> "list", results |-> items]

\* the component loop with an empty result list recorded as an error
ProcessComponentEmptyIsError(st, comp_key, raw_data) ==
    IF st.raised THEN st
    ELSE IF raw_data.kind = "list" /\ Len(raw_data.results) > 0
    THEN ProcessItems(st, comp_key, raw_data.results, 1)
    ELSE [st EXCEPT !.errors = Append(@, [msg |-> "No results found", comp |-> comp_key])]

\* one pass of the component loop (lines 125-185)
ProcessComponent(st, comp_key, raw_data) ==
    IF st.raised THEN st
    ELSE IF raw_data.kind = "null"
    THEN [st EXCEPT !.errors = Append(@, [msg |-> "Failed to fetch data", comp |-> comp_key])]
    ELSE IF raw_data.kind = "notlist"
    THEN [st EXCEPT !.errors = Append(@, [msg |-> "Expected results key to contain a list", comp |-> comp_key])]
    ELSE IF Len(raw_data.results) = 0 THEN st
    ELSE ProcessItems(st, comp_key, raw_data.results, 1)

\* the sum of the marks of the components every district reports, a district
\* without one of them counting 0.0 in all
TotalScoreOfComplete(dist_data) ==
    IF \E c \in {"performance", "farm_ponds", "dugwell", "amrit_sarovar", "mybharat"} :
          ~dist_data[c].present
    THEN PyFloat(0)
    ELSE PyAdd(PyAdd(PyAdd(PyAdd(PyAdd(dist_data.performance.target_marks,
                                       dist_data.performance.payment_marks),
                                 dist_data.farm_ponds.marks),
                           dist_data.dugwell.marks),
                     dist_data.amrit_sarovar.marks),
               dist_data.mybharat.marks)

\* the sum of the six marks of one district (lines 190-198), a missing
\* component counting 0.0
TotalScore(dist_data) ==
    LET Mark(v) == IF v = PyNone THEN PyFloat(0) ELSE v
        total_score ==
            PyAdd(PyAdd(PyAdd(PyAdd(PyAdd(PyFloat(0),
                PyAdd(Mark(dist_data.performance.target_marks),
                      Mark(dist_data.performance.payment_marks))),
                Mark(dist_data.farm_ponds.marks)),
                Mark(dist_data.dugwell.marks)),
                Mark(dist_data.amrit_sarovar.marks)),
                Mark(dist_data.mybharat.marks))
    IN  total_score

\* total_marks with a NaN or infinite sum recorded as None
TotalMarksNoneOnOverflow(dist_data) ==
    IF ~IsFinite(TotalScore(dist_data)) THEN PyNone
    ELSE PyFloat(Round2(TotalScore(dist_data).v))

\* total_marks of one district (lines 200-205): a NaN or infinite sum is
\* replaced by 0.0, then the sum is rounded to 2 decimals
TotalMarks(dist_data) ==
    LET total_score == TotalScore(dist_data)
    IN  IF ~IsFinite(total_score) THEN PyFloat(0)
        ELSE PyFloat(Round2(total_score.v))

\* the total marks loop and the returned dict of
\* _fetch_and_process_state_data_for_date
FinishDate(st) ==
    [all_districts_processed |-> [i \in 1..Len(st.map) |->
                                     [st.map[i] EXCEPT !.total_marks = TotalMarks(st.map[i])]],
     fetch_error |-> IF Len(st.errors) > 0 THEN [t |-> "str", parts |-> st.errors]
                     ELSE [t |-> "none", parts |-> <<>>]]

-----------------------------------------------------------------------------
(* analyze_district_kpis.py: analyze                                       *)

\* dict.get(name) on a processed map: the district's entry or None
GetDistrict(processed, dist_name) ==
    IF IndexOfName(processed, dist_name) = 0 THEN PyNone
    ELSE processed[IndexOfName(processed, dist_name)]

\* ranks.get(name)
GetRank(ranks, dist_name) ==
    IF dist_name \in DOMAIN ranks THEN PyInt(ranks[dist_name]) ELSE PyNone

\* _get_kpi_value(district_data, component, key, default=None); component
\* "total_marks" stands for TOTAL_MARKS_KEY with key None
_get_kpi_value(district_data, component, key) ==
    LET value == IF district_data = PyNone THEN PyNone
                 ELSE IF component = "total_marks" THEN district_data.total_marks
                 ELSE IF ~district_data[component].present THEN PyNone
                 ELSE district_data[component][key]
        target_type == IF component = "total_marks" \/ key \in {"marks", "target_marks", "payment_marks"}
                       THEN "float" ELSE "int"
        type_default == IF target_type = "float" THEN PyFloat(0) ELSE PyInt(0)
        converted_value == _safe_convert(value, target_type, type_default)
    IN  IF value = PyNone THEN PyNone ELSE converted_value

\* _extract_performer_summary(district_data)
_extract_performer_summary(district_data) ==
    IF district_data = PyNone THEN PyNone
    ELSE IF district_data.name # "" /\ IsFinite(district_data.total_marks)
    THEN [name |-> district_data.name, score |-> district_data.total_marks]
    ELSE PyNone

NoStats == [average |-> PyNone, median |-> PyNone, count |-> 0]

\* the non-None values of one marks field over a list of districts
RECURSIVE MarksList(_, _, _)
MarksList(districts, component, key) ==
    IF Len(districts) = 0 THEN <<>>
    ELSE LET m == _get_kpi_value(districts[1], component, key)
         IN  (IF m # PyNone THEN <<m>> ELSE <<>>) \o MarksList(Tail(districts), component, key)

\* state_context_data of analyze (lines 426-504)
StateContext(current_processed_map) ==
    LET current_district_list == SelectSeq(current_processed_map, ValidTotal)
        keyed == [i \in 1..Len(current_district_list) |->
                     [key |-> safe_get(current_district_list[i].total_marks, PyNone),
                      name |-> NameStr(current_district_list[i].name),
                      item |-> current_district_list[i]]]
        top_bottom_full == get_top_bottom_by_field(keyed, TRUE)
        valid_total_marks == [i \in 1..Len(current_district_list) |->
                                 current_district_list[i].total_marks]
        total_marks_stats == _calculate_stats(valid_total_marks)
        computed == Len(current_processed_map) > 0 /\ Len(current_district_list) > 0
        CompStats(component, key) ==
            IF computed THEN _calculate_stats(MarksList(current_district_list, component, key))
            ELSE NoStats
    IN  [total_marks_stats |->
            IF computed
            THEN [top_performer |-> _extract_performer_summary(top_bottom_full.top),
                  bottom_performer |-> _extract_performer_summary(top_bottom_full.bottom),
                  average |-> total_marks_stats.average,
                  median |-> total_marks_stats.median,
                  count_valid_districts |-> total_marks_stats.count]
            ELSE [top_performer |-> PyNone, bottom_performer |-> PyNone,
                  average |-> PyNone, median |-> PyNone, count_valid_districts |-> 0],
         component_stats |->
            [performance_target |-> CompStats("performance", "target_marks"),
             performance_payment |-> CompStats("performance", "payment_marks"),
             farm_ponds |-> CompStats("farm_ponds", "marks"),
             dugwell |-> CompStats("dugwell", "marks"),
             amrit_sarovar |-> CompStats("amrit_sarovar", "marks"),
             mybharat |-> CompStats("mybharat", "marks")]]

\* one entry of kpis for a count field (lines 553-560)
CountKpi(current_district_data, previous_district_data, comp, key) ==
    LET curr_val == _get_kpi_value(current_district_data, comp, key)
        prev_val == _get_kpi_value(previous_district_data, comp, key)
    IN  [current |-> curr_val, previous |-> prev_val,
         change |-> _calculate_change(curr_val, prev_val)]

\* analysis_result of analyze (lines 507-572) without the explanation text
AnalysisResult(district_name_upper, cur, prev, cur_ranks, prev_ranks) ==
    LET current_district_data == GetDistrict(cur.all_districts_processed, district_name_upper)
        previous_district_data == GetDistrict(prev.all_districts_processed, district_name_upper)
        state_context_data == StateContext(cur.all_districts_processed)
        current_rank == GetRank(cur_ranks, district_name_upper)
        previous_rank == GetRank(prev_ranks, district_name_upper)
        current_total_marks == _get_kpi_value(current_district_data, "total_marks", "")
        previous_total_marks == _get_kpi_value(previous_district_data, "total_marks", "")
    IN  [t |-> "result",
         district_name |-> district_name_upper,
         kpis |->
            [rank |-> [current |-> current_rank,
                       previous |-> previous_rank,
                       change |-> _calculate_rank_change(current_rank, previous_rank),
                       total_districts_ranked_today |->
                           state_context_data.total_marks_stats.count_valid_districts],
             total_marks |-> [current |-> current_total_marks,
                              previous |-> previous_total_marks,
                              change |-> _calculate_change(current_total_marks, previous_total_marks)],
             farm_ponds_completed |->
                 CountKpi(current_district_data, previous_district_data, "farm_ponds", "count"),
             dugwell_recharge_completed |->
                 CountKpi(current_district_data, previous_district_data, "dugwell", "count"),
             amrit_sarovar_completed |->
                 CountKpi(current_district_data, previous_district_data, "amrit_sarovar", "count"),
             old_work_completed |->
                 CountKpi(current_district_data, previous_district_data, "performance", "old_work_completed"),
             mybharat_completed |->
                 CountKpi(current_district_data, previous_district_data, "mybharat", "count")],
         state_context |-> state_context_data,
         fetch_errors |-> [current |-> cur.fetch_error, previous |-> prev.fetch_error],
         notes |-> (IF current_district_data = PyNone THEN <<"missing for current date">> ELSE <<>>)
                     \o (IF previous_district_data = PyNone THEN <<"missing for previous date">> ELSE <<>>)]

-----------------------------------------------------------------------------
(* jsm_dashboard_generator.py: grading                                     *)

\* bool(x) of a statistic: None, 0 and 0.0 are false
Truthy(x) == x # PyNone /\ ~(IsFinite(x) /\ x.v = 0)

\* x >= (y * num / den) for numbers x, y and a positive factor num/den
GeTimes(x, y, num, den) ==
    CASE x.t = "nan" \/ y.t = "nan" -> FALSE
      [] x.t = "inf" -> TRUE
      [] x.t = "ninf" -> y.t = "ninf"
      [] y.t = "inf" -> FALSE
      [] y.t = "ninf" -> TRUE
      [] OTHER -> x.v * den >= y.v * num

\* (value / max_value) * 100 >= threshold, for numbers with max_value # 0
PercentGe(value, max_value, threshold) ==
    CASE value.t = "nan" -> FALSE
      [] value.t = "inf" -> max_value.v > 0
      [] value.t = "ninf" -> max_value.v < 0
      [] max_value.v > 0 -> value.v * 100 >= threshold * max_value.v
      [] OTHER -> value.v * 100 <= threshold * max_value.v

\* state_stats as passed by the callers: None, or a dict whose average and
\* median may be missing (None here), or something that is not a dict
NoStateStats == [t |-> "none", average |-> PyNone, median |-> PyNone]
NonDictStats == [t |-> "other", average |-> PyNone, median |-> PyNone]
EmptyStats == [t |-> "empty", average |-> PyNone, median |-> PyNone]
StatsDict(average, median) == [t |-> "dict", average |-> average, median |-> median]

\* the labels: utkrisht, accha, ausat, nimn, ati nimn, under the names of
\* their bands
PercentLabelShifted(value, max_value) ==
    IF PercentGe(value, max_value, 90) THEN "excellent"
    ELSE IF PercentGe(value, max_value, 75) THEN "good"
    ELSE IF PercentGe(value, max_value, 50) THEN "average"
    ELSE IF PercentGe(value, max_value, 30) THEN "poor"
    ELSE "very_poor"

\* the percentage fallback of get_grade_label (lines 437-449)
PercentLabel(value, max_value) ==
    IF PercentGe(value, max_value, 90) THEN "excellent"
    ELSE IF PercentGe(value, max_value, 70) THEN "good"
    ELSE IF PercentGe(value, max_value, 50) THEN "average"
    ELSE IF PercentGe(value, max_value, 30) THEN "poor"
    ELSE "very_poor"

RelativeLabelNoMedian(value, avg, median) ==
    IF GeTimes(value, avg, 5, 4) THEN "excellent"
    ELSE IF GeTimes(value, avg, 1, 1) THEN "good"
    ELSE IF GeTimes(value, avg, 7, 10) THEN "poor"
    ELSE "very_poor"

\* the statistical grading of get_grade_label (lines 425-435)
RelativeLabel(value, avg, median) ==
    IF GeTimes(value, avg, 5, 4) THEN "excellent"
    ELSE IF GeTimes(value, avg, 1, 1) THEN "good"
    ELSE IF GeTimes(value, median, 1, 1) THEN "average"
    ELSE IF GeTimes(value, median, 7, 10) THEN "poor"
    ELSE "very_poor"

\* get_grade_label(value, max_value, state_stats)
get_grade_label(value, max_value, state_stats) ==
    IF ~IsNumber(value) \/ ~IsNumber(max_value) \/ (IsFinite(max_value) /\ max_value.v = 0)
    THEN "N/A"
    ELSE IF state_stats.t = "dict" /\ Truthy(state_stats.average) /\ Truthy(state_stats.median)
    THEN RelativeLabel(value, state_stats.average, state_stats.median)
    ELSE PercentLabel(value, max_value)

PercentClassShifted(value, max_value) ==
    IF PercentGe(value, max_value, 90) THEN "grade-badge excellent"
    ELSE IF PercentGe(value, max_value, 70) THEN "grade-badge good"
    ELSE IF PercentGe(value, max_value, 50) THEN "grade-badge average"
    ELSE IF PercentGe(value, max_value, 35) THEN "grade-badge poor"
    ELSE "grade-badge very-poor"

\* the percentage fallback of get_grade_class (lines 485-497)
PercentClass(value, max_value) ==
    IF PercentGe(value, max_value, 90) THEN "grade-badge excellent"
    ELSE IF PercentGe(value, max_value, 70) THEN "grade-badge good"
    ELSE IF PercentGe(value, max_value, 50) THEN "grade-badge average"
    ELSE IF PercentGe(value, max_value, 30) THEN "grade-badge poor"
    ELSE "grade-badge very-poor"

\* the statistical grading of get_grade_class (lines 473-483)
RelativeClass(value, avg, median) ==
    IF GeTimes(value, avg, 5, 4) THEN "grade-badge excellent"
    ELSE IF GeTimes(value, avg, 1, 1) THEN "grade-badge good"
    ELSE IF GeTimes(value, median, 1, 1) THEN "grade-badge average"
    ELSE IF GeTimes(value, median, 7, 10) THEN "grade-badge poor"
    ELSE "grade-badge very-poor"

\* get_grade_class(value, max_value, state_stats)
get_grade_class(value, max_value, state_stats) ==
    IF ~IsNumber(value) \/ ~IsNumber(max_value) \/ (IsFinite(max_value) /\ max_value.v = 0)
    THEN "grade-badge"
    ELSE IF state_stats.t = "dict" /\ Truthy(state_stats.average) /\ Truthy(state_stats.median)
    THEN RelativeClass(value, state_stats.average, state_stats.median)
    ELSE PercentClass(value, max_value)

-----------------------------------------------------------------------------
(* analyze_farm_ponds.py and analyze_dugwell.py: the data of one date      *)

\* the string 'Inf' written for an infinite achievement percentage
StrInfCap == [t |-> "str_Inf", v |-> 0]

\* a raw entry of a component's result list that is a non-empty dict; a
\* missing key reads as None
CompItem(name, marks, actual_count, target, achievement_percentage) ==
    [t |-> "dict", name |-> name, marks |-> marks, actual_count |-> actual_count,
     target |-> target, achievement_percentage |-> achievement_percentage]

\* a raw entry that is None or {}
EmptyCompItem ==
    [t |-> "empty", name |-> NoName, marks |-> PyNone, actual_count |-> PyNone,
     target |-> PyNone, achievement_percentage |-> PyNone]

\* a raw entry that is not a dict (a non-empty string): safe_get gives the
\* default for every key
NonDictCompItem ==
    [t |-> "other", name |-> NoName, marks |-> PyNone, actual_count |-> PyNone,
     target |-> PyNone, achievement_percentage |-> PyNone]

\* round(x, 2) of a number
PyRound2(x) == IF x.t = "float" THEN PyFloat(Round2(x.v)) ELSE x

\* the value of a conversion that catches ValueError and TypeError
OrDefault(converted, default) ==
    IF converted.t \in {"ValueError", "TypeError"} THEN default ELSE converted

\* score, count and target of process_component_data (lines 30-43 of both
\* modules)
ScoreOf(data) == OrDefault(PyFloatOf(safe_get(data.marks, PyFloat(0))), PyFloat(0))

CountOf(data) == OrDefault(PyIntOf(safe_get(data.actual_count, PyInt(0))), PyInt(0))

TargetOf(data) ==
    IF safe_get(data.target, PyNone) = PyNone THEN NA ELSE OrDefault(PyIntOf(data.target), NA)

\* ach_perc_processed of analyze_farm_ponds.process_component_data, from
\* ach_perc_raw = safe_get(data, ["achievement_percentage"])
AchievementProcessed(ach_perc_raw) ==
    CASE ach_perc_raw.t \in {"inf", "ninf", "str_inf"} -> StrInfCap
      [] ach_perc_raw.t \in {"int", "float"} -> PyRound2(ach_perc_raw)
      [] ach_perc_raw.t \in {"str_int", "str_dec"} -> PyFloat(Round2(ach_perc_raw.v))
      [] ach_perc_raw.t = "str_nan" -> NaN
      [] OTHER -> NA

\* the dict process_component_data returns, or the OverflowError of int()
\* that its except clauses let through
ProcessedRecord(name, count, score, target, achievement_percentage) ==
    IF IsExc(count) \/ IsExc(target) THEN OverflowError
    ELSE [name |-> name, actual_count |-> count, marks |-> score, target |-> target,
          achievement_percentage |-> achievement_percentage]

\* process_component_data(data) of analyze_farm_ponds.py: None, the
\* processed record, or the exception that escapes
farm_ponds_process_component_data(data) ==
    IF data.t = "empty" THEN PyNone
    ELSE ProcessedRecord(data.name, CountOf(data), PyRound2(ScoreOf(data)), TargetOf(data),
                         AchievementProcessed(safe_get(data.achievement_percentage, PyNone)))

\* process_component_data(data) of analyze_dugwell.py
dugwell_process_component_data(data) ==
    IF data.t = "empty" THEN PyNone
    ELSE ProcessedRecord(data.name, CountOf(data), ScoreOf(data), TargetOf(data),
                         safe_get(data.achievement_percentage, NA))

\* the loop `for x in results_raw: process_component_data(x)` of the
\* component's module
ProcessAll(component, results_raw) ==
    [i \in 1..Len(results_raw) |->
        IF component = "farm_ponds" THEN farm_ponds_process_component_data(results_raw[i])
        ELSE dugwell_process_component_data(results_raw[i])]

\* find_district_data(data_list, district_name_upper) of utils.py
find_district_data(data_list, district_name_upper) ==
    LET hits == {i \in 1..Len(data_list) :
                    /\ data_list[i].name.t = "str"
                    /\ StripUpper(data_list[i].name.s) = district_name_upper}
    IN  IF hits = {} THEN PyNone
        ELSE data_list[CHOOSE i \in hits : \A j \in hits : i <= j]

\* safe_get(raw, ["results"], []) of a fetched tree
ResultsOf(raw) == IF raw.kind = "list" THEN raw.results ELSE <<>>

\* s[:5]
Top5(s) == SubSeq(s, 1, IF Len(s) < 5 THEN Len(s) ELSE 5)

\* `processed and processed.get("name")`
Named(processed) == processed \notin {PyNone, OverflowError} /\ NameTruthy(processed.name)

\* records.sort(key=lambda x: x[COUNT_KEY], reverse=True)
SortByCount(records) ==
    LET sorted == SortDesc([i \in 1..Len(records) |->
                               [key |-> records[i].actual_count, item |-> records[i]]])
    IN  [i \in 1..Len(records) |-> sorted[i].item]

\* a list that was built, or the exception that escaped meanwhile
Raised == [raised |-> TRUE, list |-> <<>>]
Built(list) == [raised |-> FALSE, list |-> list]

\* top_5_panchayats of one block (lines 163-179) from its processed
\* panchayats: the named ones by count, largest first
PanchayatsFrom(processed) ==
    IF \E i \in 1..Len(processed) : processed[i] = OverflowError THEN Raised
    ELSE Built(Top5(SortByCount(
             [i \in 1..Len(SelectSeq(processed, Named)) |->
                 [name |-> SelectSeq(processed, Named)[i].name,
                  actual_count |-> SelectSeq(processed, Named)[i].actual_count]])))

\* block_info of one raw block (lines 147-161), None for a skipped block
BlockInfo(block_processed, top_5_panchayats) ==
    IF ~Named(block_processed) THEN PyNone
    ELSE [name |-> block_processed.name,
          actual_count |-> block_processed.actual_count,
          marks |-> block_processed.marks,
          top_5_panchayats |-> top_5_panchayats.list]

\* block_level_data of one date (lines 134-186) from the processed blocks
\* and the panchayat lists of the blocks: the named blocks by count, largest
\* first
BlocksFrom(processed, tops) ==
    IF \E i \in 1..Len(processed) :
          processed[i] = OverflowError \/ (Named(processed[i]) /\ tops[i].raised)
    THEN Raised
    ELSE Built(SortByCount(SelectSeq([i \in 1..Len(processed) |-> BlockInfo(processed[i], tops[i])],
                                     LAMBDA b : b # PyNone)))

\* fetch_error as initialised: None
NoFetchError == [t |-> "none", parts |-> <<>>]

\* fetch_error never set
JoinedErrorsDropped(fetch_errors) == NoFetchError

\* fetch_error: None, or the messages joined by "; " (lines 188-189)
JoinedErrors(fetch_errors) ==
    IF Len(fetch_errors) = 0 THEN NoFetchError ELSE [t |-> "str", parts |-> fetch_errors]

\* the first processed record whose name equals the requested name
SelectedDistrictData(state_results_processed, district_name_upper) ==
    LET hits == {i \in 1..Len(state_results_processed) :
                    state_results_processed[i].name = NameStr(district_name_upper)}
    IN  IF hits = {} THEN PyNone
        ELSE state_results_processed[CHOOSE i \in hits : \A j \in hits : i <= j]

\* date_analysis (lines 90-96 and 106-189) from the state list, the selected
\* record, the record find_district_data finds and the blocks
DateAnalysis(state_results_raw, processed, district_data, raw_dist_found, block_level_data) ==
    IF (\E i \in 1..Len(processed) : processed[i] = OverflowError) \/ block_level_data.raised
    THEN OverflowError
    ELSE [state_results_processed |-> SelectSeq(processed, LAMBDA d : d # PyNone),
          district_data |-> district_data,
          block_level_data |-> block_level_data.list,
          fetch_error |-> JoinedErrors(
              (IF Len(state_results_raw) = 0
               THEN <<"Could not fetch or parse state-level data">> ELSE <<>>)
              \o (IF district_data = PyNone /\ raw_dist_found # PyNone
                  THEN <<"Data for selected district found raw but failed processing">>
                  ELSE <<>>))]

\* _fetch_and_process_data_for_date(district_name, target_date), the same
\* in both modules: fetched holds what the state fetch, the block fetch and
\* the panchayat fetches of the date return; the result is date_analysis, or
\* the exception that escapes
_fetch_and_process_data_for_date(component, district_name, fetched) ==
    DateAnalysis(
        ResultsOf(fetched.state),
        ProcessAll(component, ResultsOf(fetched.state)),
        SelectedDistrictData(
            SelectSeq(ProcessAll(component, ResultsOf(fetched.state)),
                      LAMBDA d : d \notin {PyNone, OverflowError}),
            StripUpper(district_name.s)),
        find_district_data(ResultsOf(fetched.state), StripUpper(district_name.s)),
        BlocksFrom(
            ProcessAll(component, ResultsOf(fetched.blocks)),
            [i \in 1..Len(fetched.panchayats) |->
                PanchayatsFrom(ProcessAll(component, ResultsOf(fetched.panchayats[i])))]))

-----------------------------------------------------------------------------
(* analyze_farm_ponds.py and analyze_dugwell.py: analyze                   *)

RECURSIVE PyMinFrom(_, _, _)
\* min(values): the first element, replaced by each later one that is
\* smaller than the minimum so far
PyMinFrom(values, i, m) ==
    IF i > Len(values) THEN m
    ELSE PyMinFrom(values, i + 1, IF PyLt(values[i], m) THEN values[i] ELSE m)

PyMin(values) == PyMinFrom(values, 2, values[1])

RECURSIVE PyMaxFrom(_, _, _)
\* max(values)
PyMaxFrom(values, i, m) ==
    IF i > Len(values) THEN m
    ELSE PyMaxFrom(values, i + 1, IF PyLt(m, values[i]) THEN values[i] ELSE m)

PyMax(values) == PyMaxFrom(values, 2, values[1])

RECURSIVE ISqrtBetween(_, _, _)
\* the largest k in lo..hi with k * k <= m
ISqrtBetween(lo, hi, m) ==
    IF lo >= hi THEN lo
    ELSE LET mid == (lo + hi + 1) \div 2
         IN  IF mid * mid <= m THEN ISqrtBetween(mid, hi, m) ELSE ISqrtBetween(lo, mid - 1, m)

RECURSIVE SumSqDev(_, _, _)
\* the sum over i of (n * x_i - total)^2
SumSqDev(values, n, total) ==
    IF Len(values) = 0 THEN 0
    ELSE (n * values[1].v - total) * (n * values[1].v - total)
            + SumSqDev(Tail(values), n, total)

\* round(statistics.stdev(values), 2) of two or more finite values, in
\* thousandths: the variance is sum((n*x - total)^2) / (n^2 * (n - 1)), and
\* h hundredths is the rounded root when (2h - 1)^2 <= variance / 25 <
\* (2h + 1)^2
StdevRounded(values) ==
    LET n == Len(values)
        variance == SumSqDev(values, n, SumV(values)) \div (n * n * (n - 1))
        k == ISqrtBetween(0, 40000, variance \div 25)
    IN  ((k + 1) \div 2) * 10

\* statistics.stdev raises on data that is not finite (the exact-ratio
\* arithmetic of Python 3.11 fails with AttributeError)
StdevRaises(values) == \E i \in 1..Len(values) : ~IsFinite(values[i])

NoStatZero ==
    [mean |-> PyFloat(0), median |-> PyFloat(0), stdev |-> PyFloat(0), min |-> PyFloat(0),
     max |-> PyFloat(0)]

\* the "score" and "count" entries of state_statistics_today as initialised
NoStat ==
    [mean |-> PyNone, median |-> PyNone, stdev |-> PyNone, min |-> PyNone, max |-> PyNone]

\* the statistics of all_scores, computed up to the point where stdev raises
ScoreStat(all_scores) ==
    [min |-> PyMin(all_scores),
     max |-> PyMax(all_scores),
     mean |-> RoundStat2(MeanQ(all_scores), FALSE),
     median |-> RoundStat2(MedianQ(all_scores), FALSE),
     stdev |-> IF Len(all_scores) >= 2
               THEN IF StdevRaises(all_scores) THEN PyNone
                    ELSE PyFloat(StdevRounded(all_scores))
               ELSE PyFloat(0)]

\* the statistics of all_counts, a list of ints
CountStat(all_counts) ==
    [min |-> PyMin(all_counts),
     max |-> PyMax(all_counts),
     mean |-> RoundStat2(MeanQ(all_counts), TRUE),
     median |-> RoundStat0(MedianQ(all_counts), Len(all_counts) % 2 = 1),
     stdev |-> IF Len(all_counts) >= 2 THEN PyFloat(StdevRounded(all_counts))
               ELSE PyFloat(0)]

\* the statistics of an empty state list (the else of lines 507-509)
NoReportingDistricts ==
    [districts_reporting |-> 0, score |-> NoStat, count |-> NoStat,
     calculation_notes |-> <<"No reporting districts found.">>]

\* the try block of analyze_farm_ponds.analyze (lines 398-459) on the
\* filtered lists: the count statistics and the count note are skipped when
\* the score statistics raise
farm_ponds_statistics_of(num_dist_reporting, all_scores, all_counts, score_raises) ==
    [districts_reporting |-> num_dist_reporting,
     score |-> IF Len(all_scores) = 0 THEN NoStat ELSE ScoreStat(all_scores),
     count |-> IF score_raises \/ Len(all_counts) = 0 THEN NoStat ELSE CountStat(all_counts),
     calculation_notes |->
         (IF Len(all_scores) = 0 THEN <<"No valid numeric scores found.">> ELSE <<>>)
         \o (IF Len(all_counts) = 0 THEN <<"No valid integer counts found.">> ELSE <<>>)
         \o (IF Len(all_scores) = 1
             THEN <<"Standard deviation requires at least 2 data points for score.">>
             ELSE IF score_raises THEN <<"Unexpected statistics calculation error">>
             ELSE <<>>)
         \o (IF ~score_raises /\ Len(all_counts) = 1
             THEN <<"Standard deviation requires at least 2 data points for count.">>
             ELSE <<>>)]

\* all_scores of analyze_farm_ponds.analyze (line 415)
farm_ponds_all_scores(numeric) == [i \in 1..Len(numeric) |-> PyFloatOf(numeric[i].marks)]

\* all_counts of analyze_farm_ponds.analyze (line 416)
farm_ponds_all_counts(integral) ==
    [i \in 1..Len(integral) |-> PyIntOf(integral[i].actual_count)]

\* len(values) >= 2 and statistics.stdev(values) raises
StdevFails(values) == Len(values) >= 2 /\ StdevRaises(values)

\* state_statistics_today of analyze_farm_ponds.analyze (lines 398-459 and
\* 507-509)
farm_ponds_state_statistics(state_results_today) ==
    IF Len(state_results_today) = 0 THEN NoReportingDistricts
    ELSE farm_ponds_statistics_of(
             Len(state_results_today),
             farm_ponds_all_scores(SelectSeq(state_results_today, LAMBDA d : IsNumber(d.marks))),
             farm_ponds_all_counts(
                 SelectSeq(state_results_today, LAMBDA d : IsInt(d.actual_count))),
             StdevFails(farm_ponds_all_scores(
                 SelectSeq(state_results_today, LAMBDA d : IsNumber(d.marks)))))

\* the try block of analyze_dugwell.analyze (lines 254-300) on the unfiltered
\* lists
dugwell_statistics_of(num_dist_reporting, all_scores, all_counts, score_raises) ==
    [districts_reporting |-> num_dist_reporting,
     score |-> ScoreStat(all_scores),
     count |-> IF score_raises THEN NoStat ELSE CountStat(all_counts),
     calculation_notes |->
         (IF num_dist_reporting < 2
          THEN <<"Standard deviation requires at least 2 data points for score.">>
          ELSE IF score_raises THEN <<"Unexpected statistics calculation error">>
          ELSE <<>>)
         \o (IF num_dist_reporting < 2
             THEN <<"Standard deviation requires at least 2 data points for count.">>
             ELSE <<>>)]

\* [d[key] for d in state_results_today]
Column(state_results_today, key) ==
    [i \in 1..Len(state_results_today) |-> state_results_today[i][key]]

\* state_statistics_today of analyze_dugwell.analyze (lines 252-300 and
\* 341-343)
dugwell_state_statistics(state_results_today) ==
    IF Len(state_results_today) = 0 THEN NoReportingDistricts
    ELSE dugwell_statistics_of(
             Len(state_results_today),
             Column(state_results_today, "marks"),
             Column(state_results_today, "actual_count"),
             StdevFails(Column(state_results_today, "marks")))

\* the statistics block of the component's module
StateStatistics(component, state_results_today) ==
    IF component = "farm_ponds" THEN farm_ponds_state_statistics(state_results_today)
    ELSE dugwell_state_statistics(state_results_today)

\* x - y on floats
PySub(x, y) ==
    CASE x.t = "nan" \/ y.t = "nan" -> NaN
      [] x.t = "inf" -> IF y.t = "inf" THEN NaN ELSE PosInf
      [] x.t = "ninf" -> IF y.t = "ninf" THEN NaN ELSE NegInf
      [] y.t = "inf" -> NegInf
      [] y.t = "ninf" -> PosInf
      [] OTHER -> PyFloat(x.v - y.v)

\* selected_district_comparison.change (lines 372-395 of
\* analyze_farm_ponds.py, 237-251 of analyze_dugwell.py): the records hold a
\* float score and an int count, so neither module's arithmetic can raise
DistrictChange(curr_dist_data, prev_dist_data) ==
    IF curr_dist_data # PyNone /\ prev_dist_data # PyNone
    THEN LET curr_score == PyFloatOf(safe_get(curr_dist_data.marks, PyFloat(0)))
             prev_score == PyFloatOf(safe_get(prev_dist_data.marks, PyFloat(0)))
             curr_count == PyIntOf(safe_get(curr_dist_data.actual_count, PyInt(0)))
             prev_count == PyIntOf(safe_get(prev_dist_data.actual_count, PyInt(0)))
         IN  [t |-> "change",
              score_change |-> PyRound2(PySub(curr_score, prev_score)),
              count_change |-> [t |-> "int", v |-> curr_count.v - prev_count.v]]
    ELSE IF curr_dist_data # PyNone
    THEN [t |-> "status", status |-> "Previous data unavailable"]
    ELSE PyNone

\* get_top_bottom_performers_full / get_top_bottom_by_count_full on the
\* processed records; key is "marks" or "actual_count"
TopBottom(state_results_today, key) ==
    get_top_bottom_by_field(
        [i \in 1..Len(state_results_today) |->
            [key |-> safe_get(state_results_today[i][key], PyNone),
             name |-> state_results_today[i].name,
             item |-> state_results_today[i]]],
        TRUE)

\* score_comp_parts / count_comp_parts (lines 473-496): the position of the
\* district's value against the mean and the median, when they are known
PositionParts(dist_val, mean, median) ==
    (IF mean = PyNone THEN <<>>
     ELSE IF PyLt(mean, dist_val) THEN <<"Above Mean">>
     ELSE IF PyLt(dist_val, mean) THEN <<"Below Mean">>
     ELSE <<"Equal to Mean">>)
    \o (IF median = PyNone THEN <<>>
        ELSE IF PyLt(median, dist_val) THEN <<"Above Median">>
        ELSE IF PyLt(dist_val, median) THEN <<"Below Median">>
        ELSE <<"Equal to Median">>)

\* " / ".join(parts) if parts else the module's placeholder
PositionLabel(component, parts) ==
    IF Len(parts) > 0 THEN [t |-> "joined", parts |-> parts]
    ELSE [t |-> "text",
          parts |-> <<IF component = "farm_ponds" THEN "Comparison N/A" ELSE "N/A">>]

\* selected_district_position_vs_state (lines 462-505)
DistrictPosition(component, curr_dist_data, stats) ==
    IF stats.districts_reporting = 0
    THEN [score_comparison |-> PyNone, count_comparison |-> PyNone]
    ELSE IF curr_dist_data = PyNone
    THEN [score_comparison |-> [t |-> "text", parts |-> <<"District data missing">>],
          count_comparison |-> [t |-> "text", parts |-> <<"District data missing">>]]
    ELSE LET dist_score == PyFloatOf(safe_get(curr_dist_data.marks, PyFloat(0)))
             dist_count == PyIntOf(safe_get(curr_dist_data.actual_count, PyInt(0)))
         IN  [score_comparison |->
                  PositionLabel(component,
                      PositionParts(dist_score, stats.score.mean, stats.score.median)),
              count_comparison |->
                  PositionLabel(component,
                      PositionParts(dist_count, stats.count.mean, stats.count.median))]

\* previous_blocks_map.get(block_name): the count of the last block of
\* that name in the previous day's list, None when there is none
PreviousCount(previous_blocks_list, block_name) ==
    LET hits == {i \in 1..Len(previous_blocks_list) : previous_blocks_list[i].name = block_name}
    IN  IF hits = {} THEN PyNone
        ELSE previous_blocks_list[CHOOSE i \in hits : \A j \in hits : j <= i].actual_count

\* block_level_comparison (lines 512-533)
BlockComparison(current_blocks, previous_blocks_list) ==
    LET entries == [i \in 1..Len(current_blocks) |->
            LET previous_count == PreviousCount(previous_blocks_list, current_blocks[i].name)
            IN  [key |-> current_blocks[i].actual_count,
                 item |-> [name |-> current_blocks[i].name,
                           actual_count_today |-> current_blocks[i].actual_count,
                           actual_count_daybefore |->
                               IF previous_count # PyNone THEN previous_count ELSE NA,
                           top_5_panchayats |-> current_blocks[i].top_5_panchayats]]]
        sorted == SortDesc(entries)
    IN  [i \in 1..Len(sorted) |-> sorted[i].item]

\* the top_performer and bottom_performer of one comparison
Performers(comparison) ==
    [top_performer |-> comparison.top, bottom_performer |-> comparison.bottom]

\* analysis_result of analyze (lines 335-546) without the explanation text,
\* from the two date analyses and the statistics of the current one
ResultWith(component, district_name, current_analysis_data, previous_analysis_data, stats) ==
    [t |-> "component_result",
     component |-> component,
     selected_district |-> district_name,
     selected_district_comparison |->
         [current_data |-> current_analysis_data.district_data,
          previous_data |-> previous_analysis_data.district_data,
          change |-> DistrictChange(current_analysis_data.district_data,
                                    previous_analysis_data.district_data)],
     state_level_summary_today |->
         [by_score |->
              Performers(TopBottom(current_analysis_data.state_results_processed, "marks")),
          by_count |->
              Performers(TopBottom(current_analysis_data.state_results_processed,
                                   "actual_count"))],
     block_level_comparison |->
         BlockComparison(current_analysis_data.block_level_data,
                         previous_analysis_data.block_level_data),
     state_statistics_today |-> stats,
     selected_district_position_vs_state |->
         DistrictPosition(component, current_analysis_data.district_data, stats),
     current_analysis_error |-> current_analysis_data.fetch_error,
     previous_analysis_error |-> previous_analysis_data.fetch_error]

\* analysis_result of analyze
ComponentResult(component, district_name, current_analysis_data, previous_analysis_data) ==
    ResultWith(component, district_name, current_analysis_data, previous_analysis_data,
               StateStatistics(component, current_analysis_data.state_results_processed))

-----------------------------------------------------------------------------
(* state                                                                   *)

VARIABLES
    pc,             \* position of the run
    input,          \* arguments of the function under analysis
    output,         \* its return value
    fetching,       \* the date being fetched: next component and the map so far
    current_data,   \* what the fetch of the report date returned
    previous_data,  \* what the fetch of the day before returned
    current_ranks,  \* rank map of the report date
    previous_ranks, \* rank map of the day before
    responses       \* what fetch_api_data has returned so far, per date

vars == <<pc, input, output, fetching, current_data, previous_data,
          current_ranks, previous_ranks, responses>>

pipeVars == <<fetching, current_data, previous_data, current_ranks, previous_ranks, responses>>

\* processed_data_by_district = {} and fetch_errors = []
EmptySt == [map |-> <<>>, errors |-> <<>>, raised |-> FALSE]

NotFetching == [comp_i |-> 0, st |-> EmptySt]

NoData == [all_districts_processed |-> <<>>, fetch_error |-> [t |-> "none", parts |-> <<>>]]

\* no call of fetch_api_data has returned yet
NoResponses == [current |-> <<>>, previous |-> <<>>]

\* the pipeline variables of a run that only applies one function
PipeIdle ==
    /\ fetching = NotFetching
    /\ current_data = NoData
    /\ previous_data = NoData
    /\ current_ranks = EmptyMap
    /\ previous_ranks = EmptyMap
    /\ responses = NoResponses

-----------------------------------------------------------------------------
(* calculate_ranks applied to every small district map                     *)

\* total_marks values a district entry may carry
RankMarks == {PyNone, NaN, PosInf, NegInf, PyFloat(0), PyFloat(8000), PyFloat(10000), PyInt(10)}

\* all sequences over S of length n without a repeated name
DistinctNameSeqs(n) ==
    {s \in [1..n -> DistrictNames] : \A i, j \in 1..n : i # j => s[i] # s[j]}

DistrictMaps ==
    UNION {{[i \in 1..n |-> [name |-> names[i], total_marks |-> marks[i]]] :
              names \in DistinctNameSeqs(n), marks \in [1..n -> RankMarks]} :
           n \in 0..MaxDistricts}

InitRanks ==
    /\ pc = "call"
    /\ input \in DistrictMaps
    /\ output = EmptyMap
    /\ PipeIdle

CallCalculateRanks ==
    /\ pc = "call"
    /\ pc' = "done"
    /\ output' = calculate_ranks(input)
    /\ UNCHANGED <<input, pipeVars>>

NextRanks == CallCalculateRanks

SpecRanks == InitRanks /\ [][NextRanks]_vars

\* the entries of the input map whose total_marks is a finite number
ValidIdx == {i \in 1..Len(input) : IsFinite(input[i].total_marks)}

\* C1: calculate_ranks uses competition ranking: every district with a
\* valid total_marks gets rank 1 + (number of valid districts with a
\* strictly greater total_marks); so a higher total never has a worse rank,
\* equal totals share a rank, and the rank after a tie group skips by the
\* size of the group.
C1_CompetitionRanking ==
    pc = "done" =>
        /\ \A i \in ValidIdx :
              /\ input[i].name \in DOMAIN output
              /\ output[input[i].name] =
                    1 + Cardinality({j \in ValidIdx :
                                        input[j].total_marks.v > input[i].total_marks.v})
        /\ \A i, j \in ValidIdx :
              /\ input[i].total_marks.v > input[j].total_marks.v
                    => output[input[i].name] <= output[input[j].name]
              /\ input[i].total_marks.v = input[j].total_marks.v
                    => output[input[i].name] = output[input[j].name]

\* totals [10, 10, 8] have been ranked [1, 1, 3]
C1_Witness ==
    /\ pc = "done"
    /\ Len(input) = 3
    /\ input[1].total_marks = PyFloat(10000)
    /\ input[2].total_marks = PyInt(10)
    /\ input[3].total_marks = PyFloat(8000)
    /\ output = (input[1].name :> 1) @@ (input[2].name :> 1) @@ (input[3].name :> 3)

\* C2: calculate_ranks ranks exactly the districts whose total_marks is a
\* finite number: a district whose total_marks is null, NaN or infinite is
\* absent from the rank map and leaves every other rank as it would be
\* without it, and a total_marks of 0 is ranked like any other score.
C2_OnlyFiniteRanked ==
    pc = "done" =>
        /\ DOMAIN output = {input[i].name : i \in ValidIdx}
        /\ output = calculate_ranks(SelectSeq(input, LAMBDA d : IsFinite(d.total_marks)))
        /\ \A i \in 1..Len(input) :
              input[i].total_marks = PyFloat(0) => input[i].name \in DOMAIN output

\* a map with an unusable total (null, NaN or infinite) and a zero total,
\* where the zero total is ranked second behind a positive one
C2_Witness ==
    /\ pc = "done"
    /\ \E i, j, k \in 1..Len(input) :
          /\ input[i].total_marks \in {PyNone, NaN, PosInf, NegInf}
          /\ input[j].total_marks = PyFloat(0)
          /\ input[k].total_marks = PyFloat(8000)
          /\ output = (input[j].name :> 2) @@ (input[k].name :> 1)

-----------------------------------------------------------------------------
(* _calculate_change applied to every pair of small values                 *)

\* values a KPI field may hold on either date
ChangeValues ==
    {PyNone, NaN, PosInf, NegInf, PyOther, StrBad, StrInf, StrNan,
     StrInt(5), StrDec(12500), PyInt(0), PyInt(10), PyInt(12),
     PyFloat(12500), PyFloat(10004), PyFloat(18500)}

InitChange ==
    /\ pc = "call"
    /\ input \in [current_val : ChangeValues, previous_val : ChangeValues]
    /\ output = PyNone
    /\ PipeIdle

CallCalculateChange ==
    /\ pc = "call"
    /\ pc' = "done"
    /\ output' = _calculate_change(input.current_val, input.previous_val)
    /\ UNCHANGED <<input, pipeVars>>

NextChange == CallCalculateChange

SpecChange == InitChange /\ [][NextChange]_vars

\* the value is a number or a numeric text that converts to a finite float
ConvertsToFinite(x) == x.t \in {"int", "float", "str_int", "str_dec"}

-----------------------------------------------------------------------------
(* analyze of analyze_district_kpis.py on small upstream responses         *)

\* dates for which strptime(report_date_str, "%Y-%m-%d") succeeds
ValidDates == {"2025-05-10"}

\* report_date_str: absent (""), malformed, or a valid date
KpiDateArgs == {"", "10/05/2025", "2025-05-10"}

\* district_name: absent, empty, or a name
KpiDistrictArgs == {NoName, NameStr(""), NameStr("bhopal")}

\* a raw entry of a marks/count component
Item(name, marks, count) == RawItem(name, marks, count, PyNone, PyNone, PyNone, PyNone)

\* a raw entry of the performance component
PerfItem(name, target_marks, payment_marks, categories) ==
    RawItem(name, PyNone, PyNone, PyNone, target_marks, payment_marks, categories)

SomeCategories ==
    CategoriesDict(<<PyInt(5), StrInt(2), PyNone, PyFloat(1700), StrBad, PosInf, PyNone>>)

\* the responses of the upstream API that the run is explored on, per date
\* and component
KpiResponses(date, comp_key) ==
    CASE date = "current" /\ comp_key = "performance" ->
            {NullResponse,
             ListResponse(<<PerfItem(NameStr("BHOPAL"), PyFloat(10000), PyFloat(5000), SomeCategories),
                            PerfItem(NameStr("INDORE"), PyInt(8), StrBad, PyOther)>>),
             ListResponse(<<PerfItem(NameStr("Sagar"), StrDec(20124), NaN, PyNone)>>)}
      [] date = "current" /\ comp_key = "farm_ponds" ->
            {NullResponse,
             ListResponse(<<>>),
             ListResponse(<<Item(NameStr("Bhopal"), PyFloat(10000), PyInt(5)),
                            Item(NameStr("INDORE"), PyFloat(10000), PyInt(3)),
                            Item(NameStr("SAGAR"), PyFloat(8000), PyInt(1))>>),
             ListResponse(<<Item(NameStr(" BHOPAL "), PyFloat(7124), StrInt(12)),
                            Item(NoName, PyFloat(30000), PyInt(9)),
                            Item(NameStr("  "), PyFloat(30000), PyInt(9)),
                            NonDictItem,
                            Item(NonStrName, PyFloat(30000), PyInt(9))>>),
             ListResponse(<<Item(NameStr("SAGAR"), PyFloat(2000), PyInt(1)),
                            Item(NameStr("INDORE"), NaN, PosInf)>>),
             ListResponse(<<Item(NameStr("SAGAR"), StrBad, PyFloat(12700)),
                            Item(NameStr("BHOPAL"), StrInf, PyNone),
                            Item(NameStr("Sagar"), PyFloat(6500), PyInt(2))>>)}
      [] date = "current" /\ comp_key = "dugwell" ->
            {NullResponse,
             NotListResponse,
             ListResponse(<<Item(NameStr("INDORE"), PyFloat(4000), PyInt(2)),
                            Item(NameStr("UJJAIN"), PyFloat(2500), PyInt(1))>>)}
      [] date = "current" /\ comp_key = "amrit_sarovar" ->
            {ListResponse(<<>>),
             ListResponse(<<Item(NameStr("BHOPAL"), PyFloat(3000), PyInt(1))>>)}
      [] date = "current" /\ comp_key = "mybharat" ->
            {NullResponse,
             ListResponse(<<RawItem(NameStr("SAGAR"), PyFloat(1500), PyInt(7), PyInt(10),
                                    PyNone, PyNone, PyNone)>>),
             ListResponse(<<RawItem(NameStr("Bhopal"), PyFloat(2000), StrBad, PosInf,
                                    PyNone, PyNone, PyNone)>>)}
      [] date = "previous" /\ comp_key = "performance" ->
            {NullResponse,
             ListResponse(<<PerfItem(NameStr("BHOPAL"), PyFloat(8000), PyFloat(5000), SomeCategories),
                            PerfItem(NameStr("INDORE"), PyFloat(10000), PyFloat(2000), PyNone)>>)}
      [] date = "previous" /\ comp_key = "farm_ponds" ->
            {NullResponse,
             ListResponse(<<>>),
             ListResponse(<<Item(NameStr("Bhopal"), PyFloat(9000), PyInt(4)),
                            Item(NameStr("INDORE"), PyFloat(10000), PyInt(3))>>),
             ListResponse(<<Item(NameStr("SAGAR"), PyFloat(12000), PyInt(9)),
                            Item(NameStr("INDORE"), PyFloat(1000), PyInt(1))>>)}
      [] date = "previous" /\ comp_key = "dugwell" ->
            {NullResponse,
             ListResponse(<<Item(NameStr("INDORE"), PyFloat(4000), PyInt(2))>>)}
      [] date = "previous" /\ comp_key = "amrit_sarovar" ->
            {ListResponse(<<>>),
             ListResponse(<<Item(NameStr("BHOPAL"), PyFloat(3000), PyInt(1))>>)}
      [] date = "previous" /\ comp_key = "mybharat" ->
            {NullResponse,
             ListResponse(<<RawItem(NameStr("SAGAR"), PyFloat(1500), PyInt(6), PyInt(10),
                                    PyNone, PyNone, PyNone)>>)}

InitKpi ==
    /\ pc = "start"
    /\ input \in [district_name : KpiDistrictArgs, report_date_str : KpiDateArgs]
    /\ output = PyNone
    /\ PipeIdle

\* the argument checks of analyze (lines 398-407): a missing district or
\* date, or a malformed date, returns None
KpiValidate ==
    /\ pc = "start"
    /\ IF ~NameTruthy(input.district_name) \/ input.report_date_str = ""
          \/ input.report_date_str \notin ValidDates
       THEN pc' = "aborted" /\ UNCHANGED fetching
       ELSE pc' = "fetch_current" /\ fetching' = [comp_i |-> 1, st |-> EmptySt]
    /\ UNCHANGED <<input, output, current_data, previous_data, current_ranks, previous_ranks,
                   responses>>

\* one pass of the component loop of
\* _fetch_and_process_state_data_for_date(report_date_str); the pass over
\* the last component also computes the totals and returns
KpiFetchCurrent ==
    /\ pc = "fetch_current"
    /\ \E raw_data \in KpiResponses("current", COMPONENTS[fetching.comp_i]) :
          LET st1 == ProcessComponent(fetching.st, COMPONENTS[fetching.comp_i], raw_data)
          IN  /\ responses' = [responses EXCEPT !.current = Append(@, raw_data)]
              /\ IF st1.raised
                 THEN pc' = "raised" /\ fetching' = [fetching EXCEPT !.st = st1]
                      /\ UNCHANGED current_data
                 ELSE IF fetching.comp_i = Len(COMPONENTS)
                 THEN pc' = "fetch_previous" /\ fetching' = [comp_i |-> 1, st |-> EmptySt]
                      /\ current_data' = FinishDate(st1)
                 ELSE pc' = pc /\ fetching' = [comp_i |-> fetching.comp_i + 1, st |-> st1]
                      /\ UNCHANGED current_data
    /\ UNCHANGED <<input, output, previous_data, current_ranks, previous_ranks>>

\* the same for _fetch_and_process_state_data_for_date(previous_date_str)
KpiFetchPrevious ==
    /\ pc = "fetch_previous"
    /\ \E raw_data \in KpiResponses("previous", COMPONENTS[fetching.comp_i]) :
          LET st1 == ProcessComponent(fetching.st, COMPONENTS[fetching.comp_i], raw_data)
          IN  /\ responses' = [responses EXCEPT !.previous = Append(@, raw_data)]
              /\ IF st1.raised
                 THEN pc' = "raised" /\ fetching' = [fetching EXCEPT !.st = st1]
                      /\ UNCHANGED previous_data
                 ELSE IF fetching.comp_i = Len(COMPONENTS)
                 THEN pc' = "compute" /\ fetching' = NotFetching
                      /\ previous_data' = FinishDate(st1)
                 ELSE pc' = pc /\ fetching' = [comp_i |-> fetching.comp_i + 1, st |-> st1]
                      /\ UNCHANGED previous_data
    /\ UNCHANGED <<input, output, current_data, current_ranks, previous_ranks>>

\* the rest of analyze (lines 415-572): ranks of both dates, state context
\* and the KPIs of the selected district
KpiCompute ==
    /\ pc = "compute"
    /\ pc' = "done"
    /\ current_ranks' = calculate_ranks(current_data.all_districts_processed)
    /\ previous_ranks' = calculate_ranks(previous_data.all_districts_processed)
    /\ output' = AnalysisResult(StripUpper(input.district_name.s), current_data, previous_data,
                                current_ranks', previous_ranks')
    /\ UNCHANGED <<input, fetching, current_data, previous_data, responses>>

NextKpi == KpiValidate \/ KpiFetchCurrent \/ KpiFetchPrevious \/ KpiCompute

SpecKpi == InitKpi /\ [][NextKpi]_vars

\* the selected district, as analyze normalises it
SelectedDistrict == StripUpper(input.district_name.s)

\* C5: _calculate_rank_change returns previousRank - currentRank when both
\* ranks are present (positive means the rank improved) and null when
\* either is absent; so kpis.rank.change is null whenever the selected
\* district is unranked on either date.
C5_RankChange ==
    pc = "done" =>
        /\ output.kpis.rank.current = GetRank(current_ranks, SelectedDistrict)
        /\ output.kpis.rank.previous = GetRank(previous_ranks, SelectedDistrict)
        /\ IF SelectedDistrict \in DOMAIN current_ranks /\ SelectedDistrict \in DOMAIN previous_ranks
           THEN output.kpis.rank.change =
                    PyInt(previous_ranks[SelectedDistrict] - current_ranks[SelectedDistrict])
           ELSE output.kpis.rank.change = PyNone

\* the district fell from rank 1 to rank 3: change -2
C5_Witness ==
    /\ pc = "done"
    /\ SelectedDistrict \in DOMAIN current_ranks
    /\ SelectedDistrict \in DOMAIN previous_ranks
    /\ current_ranks[SelectedDistrict] = 3
    /\ previous_ranks[SelectedDistrict] = 1
    /\ output.kpis.rank.change = PyInt(-2)

\* the district is unranked on the day before and its change is null
C5_WitnessUnranked ==
    /\ pc = "done"
    /\ SelectedDistrict \in DOMAIN current_ranks
    /\ SelectedDistrict \notin DOMAIN previous_ranks
    /\ output.kpis.rank.change = PyNone

-----------------------------------------------------------------------------
(* get_grade_label and get_grade_class applied to small inputs             *)

GradeValues ==
    {PyNone, NA, NaN, PosInf, PyInt(0), PyInt(10), PyFloat(29990), PyInt(30), PyInt(35),
     PyFloat(49500), PyInt(50), PyInt(55), PyFloat(69990), PyInt(70), PyInt(75),
     PyFloat(89990), PyInt(90), PyInt(95), PyInt(100), PyFloat(27000), PyFloat(13500)}

GradeMaxValues == {PyNone, NA, PyInt(0), PyFloat(0), PyInt(100), PyInt(30)}

GradeStatValues == {PyNone, PyFloat(0), PyFloat(40000), PyFloat(60000), PyFloat(76000)}

GradeStats ==
    {NoStateStats, NonDictStats, EmptyStats}
        \cup {StatsDict(a, m) : a \in GradeStatValues, m \in GradeStatValues}

InitGrade ==
    /\ pc = "call"
    /\ input \in [value : GradeValues, max_value : GradeMaxValues, state_stats : GradeStats]
    /\ output = [label |-> "", class |-> ""]
    /\ PipeIdle

CallGradeLabel ==
    /\ pc = "call"
    /\ pc' = "labelled"
    /\ output' = [output EXCEPT !.label =
                      get_grade_label(input.value, input.max_value, input.state_stats)]
    /\ UNCHANGED <<input, pipeVars>>

CallGradeClass ==
    /\ pc = "labelled"
    /\ pc' = "done"
    /\ output' = [output EXCEPT !.class =
                      get_grade_class(input.value, input.max_value, input.state_stats)]
    /\ UNCHANGED <<input, pipeVars>>

NextGrade == CallGradeLabel \/ CallGradeClass

SpecGrade == InitGrade /\ [][NextGrade]_vars

\* value and max_value are numbers and max_value is not 0
Gradable == IsNumber(input.value) /\ IsNumber(input.max_value) /\ input.max_value.v # 0

\* state_stats carries an average and a median that are both non-zero
UsableStats ==
    /\ input.state_stats.t = "dict"
    /\ input.state_stats.average \notin {PyNone, PyFloat(0)}
    /\ input.state_stats.median \notin {PyNone, PyFloat(0)}

\* the band of value/max_value*100 for a finite value and a positive maximum
BandOfPercentage ==
    LET hundredV == 100 * input.value.v
        m == input.max_value.v
    IN  IF hundredV >= 90 * m THEN "excellent"
        ELSE IF hundredV >= 70 * m THEN "good"
        ELSE IF hundredV >= 50 * m THEN "average"
        ELSE IF hundredV >= 30 * m THEN "poor"
        ELSE "very_poor"

\* C6: absolute mode: for a numeric value and a non-zero numeric maxValue,
\* without usable state statistics the band is decided by
\* value/maxValue*100 alone: excellent >= 90, good >= 70, average >= 50,
\* poor >= 30, very_poor otherwise (95, 75, 55, 35, 10 out of 100).
C6_AbsoluteMode ==
    (pc # "call" /\ Gradable /\ ~UsableStats) =>
        /\ IsFinite(input.value) => output.label = BandOfPercentage
        /\ input.value = NaN => output.label = "very_poor"
        /\ input.value = PosInf => output.label = "excellent"
        /\ input.max_value = PyInt(100) =>
              /\ input.value = PyInt(95) => output.label = "excellent"
              /\ input.value = PyInt(75) => output.label = "good"
              /\ input.value = PyInt(55) => output.label = "average"
              /\ input.value = PyInt(35) => output.label = "poor"
              /\ input.value = PyInt(10) => output.label = "very_poor"

\* 75 out of 100 has been graded good although the state median is missing
C6_Witness ==
    /\ pc = "done"
    /\ input.value = PyInt(75)
    /\ input.max_value = PyInt(100)
    /\ input.state_stats = StatsDict(PyFloat(40000), PyNone)
    /\ output.label = "good"

\* C7: relative mode: with an average and a median that are both non-zero
\* the band is decided only by the value against them, in this order:
\* excellent if value >= 1.25*average, good if value >= average, average
\* if value >= median, poor if value >= 0.7*median, very_poor otherwise;
\* value/maxValue plays no part.
C7_RelativeMode ==
    (pc # "call" /\ Gradable /\ UsableStats /\ IsFinite(input.value)) =>
        LET v == input.value.v
            a == input.state_stats.average.v
            m == input.state_stats.median.v
        IN  output.label =
                IF 4 * v >= 5 * a THEN "excellent"
                ELSE IF v >= a THEN "good"
                ELSE IF v >= m THEN "average"
                ELSE IF 10 * v >= 7 * m THEN "poor"
                ELSE "very_poor"

\* 27 of 30 (90 percent) has been graded very_poor against average 60 and
\* median 76
C7_Witness ==
    /\ pc = "done"
    /\ input.value = PyFloat(27000)
    /\ input.max_value = PyInt(30)
    /\ input.state_stats = StatsDict(PyFloat(60000), PyFloat(76000))
    /\ output.label = "very_poor"

\* the class that belongs to a label
ClassOfLabel(label) ==
    CASE label = "excellent" -> "grade-badge excellent"
      [] label = "good" -> "grade-badge good"
      [] label = "average" -> "grade-badge average"
      [] label = "poor" -> "grade-badge poor"
      [] label = "very_poor" -> "grade-badge very-poor"
      [] label = "N/A" -> "grade-badge"

\* C8: for every input get_grade_label and get_grade_class select the
\* same band; the bare class 'grade-badge' goes with the label 'N/A', which
\* is given exactly when value or maxValue is not numeric or maxValue is 0.
C8_LabelMatchesClass ==
    pc = "done" =>
        /\ output.class = ClassOfLabel(output.label)
        /\ output.label = "N/A" <=> ~Gradable

\* 35 out of 100 without statistics: label poor, class grade-badge poor
C8_Witness ==
    /\ pc = "done"
    /\ input.value = PyInt(35)
    /\ input.max_value = PyInt(100)
    /\ input.state_stats = NoStateStats
    /\ output = [label |-> "poor", class |-> "grade-badge poor"]

-----------------------------------------------------------------------------
(* analyze of analyze_farm_ponds.py and analyze_dugwell.py on small inputs *)

ComponentArgs == {"farm_ponds", "dugwell"}

\* district_name: absent, empty, or a name in one of two spellings
ComponentDistrictArgs == {NoName, NameStr(""), NameStr("bhopal"), NameStr("INDORE")}

\* a raw entry with a name, a score and a count
Entry(name, marks, actual_count) == CompItem(name, marks, actual_count, PyInt(10), PyFloat(50000))

\* what the state-level fetch of a date may return
StateResponses(date) ==
    IF date = "current"
    THEN {NullResponse,
          ListResponse(<<>>),
          ListResponse(<<EmptyCompItem>>),
          ListResponse(<<Entry(NameStr("BHOPAL"), PyFloat(12346), PyInt(7))>>),
          ListResponse(<<Entry(NameStr("Bhopal"), StrDec(7500), StrInt(7))>>),
          ListResponse(<<Entry(NoName, PyInt(5), PyFloat(3000))>>),
          ListResponse(<<NonDictCompItem>>),
          ListResponse(<<CompItem(NameStr("INDORE"), StrInf, PyInt(3), StrBad, StrInf)>>),
          ListResponse(<<CompItem(NameStr("BHOPAL"), NaN, NaN, PyNone, NaN)>>),
          ListResponse(<<Entry(NameStr("BHOPAL"), PyFloat(5000), PosInf)>>),
          ListResponse(<<Entry(NameStr("BHOPAL"), PyFloat(5000), PyInt(3)),
                         Entry(NameStr("INDORE"), PyFloat(8000), PyInt(4))>>),
          ListResponse(<<Entry(NameStr("BHOPAL"), PosInf, PyInt(3)),
                         Entry(NameStr("INDORE"), PyFloat(8000), PyInt(4))>>),
          ListResponse(<<Entry(NameStr("INDORE"), PyFloat(8000), PyInt(4)),
                         Entry(NameStr("BHOPAL"), PyFloat(5000), PyInt(9)),
                         Entry(NameStr("SAGAR"), PyFloat(12346), PyInt(4))>>),
          ListResponse(<<Entry(NameStr("BHOPAL"), PyFloat(8000), PyInt(2)),
                         EmptyCompItem,
                         Entry(NameStr(""), PyFloat(8000), PyInt(6))>>)}
    ELSE {NullResponse,
          ListResponse(<<Entry(NameStr("BHOPAL"), PyFloat(4000), PyInt(5))>>),
          ListResponse(<<Entry(NameStr("INDORE"), PyFloat(9120), PyInt(1)),
                         Entry(NameStr("BHOPAL"), PosInf, PyInt(2))>>)}

\* what the block-level fetch of a date may return
BlockResponses(date) ==
    IF date = "current"
    THEN {NullResponse,
          ListResponse(<<>>),
          ListResponse(<<Entry(NameStr("BERASIA"), PyFloat(2000), PyInt(4))>>),
          ListResponse(<<Entry(NameStr("PHANDA"), PyFloat(1000), PyInt(2)),
                         Entry(NoName, PyFloat(1000), PyInt(9)),
                         Entry(NameStr("BERASIA"), PyFloat(2000), PyInt(4))>>)}
    ELSE {NullResponse,
          ListResponse(<<Entry(NameStr("BERASIA"), PyFloat(1500), PyInt(0))>>),
          ListResponse(<<Entry(NameStr("PHANDA"), PyFloat(1000), PyInt(2)),
                         Entry(NameStr("Berasia"), PyFloat(1000), PyInt(3))>>)}

\* what the panchayat-level fetch of a block may return
PanchayatResponses ==
    {NullResponse,
     ListResponse(<<Entry(NameStr("P1"), PyFloat(100), PyInt(1)),
                    Entry(NoName, PyFloat(100), PyInt(5)),
                    Entry(NameStr("P2"), PyFloat(200), PyInt(2))>>)}

\* everything the fetches of one date may return
DateFetches(date) ==
    UNION {[state : StateResponses(date), blocks : {b},
            panchayats : [1..Len(b.results) -> PanchayatResponses]] : b \in BlockResponses(date)}

InitComponent ==
    /\ pc = "component_start"
    /\ input \in [component : ComponentArgs, district_name : ComponentDistrictArgs,
                  report_date_str : KpiDateArgs]
    /\ output = PyNone
    /\ PipeIdle

\* the argument checks of analyze (lines 318-328): a missing district or
\* date, or a malformed date, returns None
ComponentValidate ==
    /\ pc = "component_start"
    /\ pc' = IF ~NameTruthy(input.district_name) \/ input.report_date_str = ""
                \/ input.report_date_str \notin ValidDates
             THEN "component_aborted" ELSE "component_fetch_current"
    /\ UNCHANGED <<input, output, pipeVars>>

\* _fetch_and_process_data_for_date(district_name, report_date_str)
ComponentFetchCurrent ==
    /\ pc = "component_fetch_current"
    /\ \E fetched \in DateFetches("current") :
          LET date_analysis ==
                  _fetch_and_process_data_for_date(input.component, input.district_name, fetched)
          IN  /\ responses' = [responses EXCEPT !.current = <<fetched>>]
              /\ IF date_analysis = OverflowError
                 THEN pc' = "component_raised" /\ UNCHANGED current_data
                 ELSE pc' = "component_fetch_previous" /\ current_data' = date_analysis
    /\ UNCHANGED <<input, output, fetching, previous_data, current_ranks, previous_ranks>>

\* _fetch_and_process_data_for_date(district_name, previous_date_str)
ComponentFetchPrevious ==
    /\ pc = "component_fetch_previous"
    /\ \E fetched \in DateFetches("previous") :
          LET date_analysis ==
                  _fetch_and_process_data_for_date(input.component, input.district_name, fetched)
          IN  /\ responses' = [responses EXCEPT !.previous = <<fetched>>]
              /\ IF date_analysis = OverflowError
                 THEN pc' = "component_raised" /\ UNCHANGED previous_data
                 ELSE pc' = "component_compute" /\ previous_data' = date_analysis
    /\ UNCHANGED <<input, output, fetching, current_data, current_ranks, previous_ranks>>

\* the rest of analyze (lines 335-546)
ComponentCompute ==
    /\ pc = "component_compute"
    /\ pc' = "component_done"
    /\ output' = ComponentResult(input.component, input.district_name.s,
                                 current_data, previous_data)
    /\ UNCHANGED <<input, pipeVars>>

NextComponent ==
    ComponentValidate \/ ComponentFetchCurrent \/ ComponentFetchPrevious \/ ComponentCompute

SpecComponent == InitComponent /\ [][NextComponent]_vars

\* every entry of a {mean, median, stdev, min, max} group is None
AllNull(stat) == \A k \in {"mean", "median", "stdev", "min", "max"} : stat[k] = PyNone

StdevNote(field) ==
    IF field = "score" THEN "Standard deviation requires at least 2 data points for score."
    ELSE "Standard deviation requires at least 2 data points for count."

InNotes(note) ==
    \E i \in 1..Len(output.state_statistics_today.calculation_notes) :
        output.state_statistics_today.calculation_notes[i] = note

\* C10: when exactly one district reports on the current date with value
\* v, the state statistics give mean = median = min = max = v and stdev =
\* 0.0, for the score and for the count, the note that the standard
\* deviation requires at least 2 data points is in calculation_notes, and
\* no error is recorded for it.
C10_SingleValue ==
    (pc = "component_done" /\ Len(current_data.state_results_processed) = 1) =>
        LET d == current_data.state_results_processed[1]
            st == output.state_statistics_today
        IN  /\ st.districts_reporting = 1
            /\ \A k \in {"mean", "median", "min", "max"} :
                  st.score[k] = d.marks /\ st.count[k] = d.actual_count
            /\ st.score.stdev = PyFloat(0)
            /\ st.count.stdev = PyFloat(0)
            /\ InNotes(StdevNote("score"))
            /\ InNotes(StdevNote("count"))
            /\ ~InNotes("Unexpected statistics calculation error")

-----------------------------------------------------------------------------
(* a run of one of the analyzers: the KPI aggregator or a component        *)

InitReport == InitKpi \/ InitComponent

NextReport == NextKpi \/ NextComponent

SpecReport == InitReport /\ [][NextReport]_vars

\* the finite values of one marks field over the districts with a valid
\* total on the current date
FiniteMarks(component, key) ==
    SelectSeq(MarksList(SelectSeq(current_data.all_districts_processed, ValidTotal),
                        component, key),
              IsFinite)

-----------------------------------------------------------------------------
(* records without a usable name                                           *)

\* the raw record is a dict whose name is a non-empty string
HasValidName(item_data) ==
    item_data.t = "dict" /\ item_data.name.t = "str" /\ item_data.name.s # ""

\* the number of records of a raw list that have a valid name
ValidNameCount(results_raw) ==
    Cardinality({i \in 1..Len(results_raw) : HasValidName(results_raw[i])})

\* the state-level list that the component run received for the current date
CurrentStateRaw == ResultsOf(responses.current[1].state)

\* the raw records that the KPI run received for the current date
CurrentKpiRaw ==
    UNION {{responses.current[c].results[i] : i \in 1..Len(responses.current[c].results)} :
              c \in 1..Len(responses.current)}

\* C11: a raw record whose name is missing, null, empty or not a string
\* never appears downstream.  Component aggregator: every record of
\* state_results_processed carries a non-empty string name, there are no
\* more of them than validly named raw records, and districts_reporting
\* counts no others.  KPI aggregator: every record of
\* all_districts_processed carries the normalised name of a validly named
\* raw record.
C11_UnnamedNeverDownstream ==
    /\ pc \in {"component_fetch_previous", "component_compute", "component_done"} =>
          /\ \A i \in 1..Len(current_data.state_results_processed) :
                /\ current_data.state_results_processed[i].name.t = "str"
                /\ current_data.state_results_processed[i].name.s # ""
          /\ Len(current_data.state_results_processed) <= ValidNameCount(CurrentStateRaw)
    /\ pc = "component_done" =>
          output.state_statistics_today.districts_reporting <= ValidNameCount(CurrentStateRaw)
    /\ pc \in {"fetch_previous", "compute", "done"} =>
          \A i \in 1..Len(current_data.all_districts_processed) :
              /\ current_data.all_districts_processed[i].name # ""
              /\ \E item_data \in CurrentKpiRaw :
                    /\ HasValidName(item_data)
                    /\ StripUpper(item_data.name.s) = current_data.all_districts_processed[i].name

\* the KPI half of C11 on its own
C11_KpiNamesValid ==
    pc \in {"fetch_previous", "compute", "done"} =>
        \A i \in 1..Len(current_data.all_districts_processed) :
            /\ current_data.all_districts_processed[i].name # ""
            /\ \E item_data \in CurrentKpiRaw :
                  /\ HasValidName(item_data)
                  /\ StripUpper(item_data.name.s) = current_data.all_districts_processed[i].name

-----------------------------------------------------------------------------
(* get_top_bottom_by_field applied to small lists of records               *)

\* the longest list explored
MaxRecords == 3

\* an entity record with a name, a score and a count
Rec(name, marks, actual_count) ==
    [name |-> name, marks |-> marks, actual_count |-> actual_count]

RecA == Rec(NameStr("A"), PyFloat(18500), PyInt(100))
RecB == Rec(NameStr("B"), PyFloat(18500), PyInt(80))
RecC == Rec(NameStr("C"), PyFloat(12000), PyInt(200))

\* the records of the lists: the three above, records with an infinite and
\* with a NaN score, records without a name, and a record whose score is a
\* string and whose count is missing
ExtremaRecords ==
    {RecA, RecB, RecC,
     Rec(NameStr("I"), PosInf, PyInt(150)),
     Rec(NameStr("N"), NegInf, NaN),
     Rec(NameStr("X"), NaN, PyInt(50)),
     Rec(NoName, PyFloat(30000), PyInt(300)),
     Rec(NameStr(""), PyFloat(1000), PyInt(10)),
     Rec(NameStr("S"), StrDec(25000), PyNone)}

InitExtrema ==
    /\ pc = "extrema_call"
    /\ input \in UNION {[1..n -> ExtremaRecords] : n \in 0..MaxRecords}
    /\ output = PyNone
    /\ PipeIdle

\* get_top_bottom_performers_full(data_list, "marks")
CallTopBottomByScore ==
    /\ pc = "extrema_call"
    /\ pc' = "extrema_scored"
    /\ output' = [marks |-> TopBottom(input, "marks")]
    /\ UNCHANGED <<input, pipeVars>>

\* get_top_bottom_by_count_full(data_list, "actual_count")
CallTopBottomByCount ==
    /\ pc = "extrema_scored"
    /\ pc' = "extrema_done"
    /\ output' = [marks |-> output.marks, actual_count |-> TopBottom(input, "actual_count")]
    /\ UNCHANGED <<input, pipeVars>>

NextExtrema == CallTopBottomByScore \/ CallTopBottomByCount

SpecExtrema == InitExtrema /\ [][NextExtrema]_vars

\* the records of the input whose value under key is a finite number and
\* whose name is a non-empty string
FiniteNamed(key) ==
    {i \in 1..Len(input) :
        IsFinite(input[i][key]) /\ input[i].name.t = "str" /\ input[i].name.s # ""}

\* the records of the input that the function admits: the value is a
\* number other than NaN and the name is truthy
Admitted(key) ==
    {i \in 1..Len(input) :
        IsNumber(input[i][key]) /\ input[i][key].t # "nan" /\ NameTruthy(input[i].name)}

\* top is a record of idx with the largest value under key, bottom one with
\* the smallest, and they are the same record when idx holds one record
ExtremaOf(res, key, idx) ==
    /\ \E i \in idx : res.top = input[i] /\ \A j \in idx : ~PyLt(input[i][key], input[j][key])
    /\ \E i \in idx : res.bottom = input[i] /\ \A j \in idx : ~PyLt(input[j][key], input[i][key])
    /\ Cardinality(idx) = 1 => res.top = res.bottom

\* C12: get_top_bottom_by_field with higher_is_better returns as top a
\* complete, unmodified record of the input list whose compared value is
\* the maximum over the valid records (finite value, non-empty name) and as
\* bottom one whose value is the minimum; with a single valid record both
\* are that record; for A(18.5, 100), B(18.5, 80), C(12.0, 200) the top by
\* score is A or B and the bottom C, the top by count is C and the bottom B.
C12_TopBottomRecords ==
    pc = "extrema_done" =>
        /\ \A key \in {"marks", "actual_count"} :
              FiniteNamed(key) # {} => ExtremaOf(output[key], key, FiniteNamed(key))
        /\ input = <<RecA, RecB, RecC>> =>
              /\ output.marks.top \in {RecA, RecB}
              /\ output.marks.bottom = RecC
              /\ output.actual_count.top = RecC
              /\ output.actual_count.bottom = RecB

\* the same over the records that the function admits, which holds
C12_TopBottomAmongAdmitted ==
    pc = "extrema_done" =>
        /\ \A key \in {"marks", "actual_count"} :
              Admitted(key) # {} => ExtremaOf(output[key], key, Admitted(key))
        /\ input = <<RecA, RecB, RecC>> =>
              /\ output.marks.top = RecA
              /\ output.marks.bottom = RecC
              /\ output.actual_count.top = RecC
              /\ output.actual_count.bottom = RecB

\* the list A, B, C has been searched
C12_ExampleReached ==
    pc = "extrema_done" /\ input = <<RecA, RecB, RecC>> /\ output.marks.top = RecA

\* C13: get_top_bottom_by_field considers only records whose compared
\* value is a finite number and whose name is non-empty: a record whose
\* value is missing, non-numeric, NaN or +/-Infinity, or whose name is
\* empty, is never returned as top or bottom, and when no record qualifies
\* the result is {top: null, bottom: null}.
C13_OnlyFiniteNamed ==
    pc = "extrema_done" =>
        \A key \in {"marks", "actual_count"} :
            /\ \A p \in {"top", "bottom"} :
                  output[key][p] # PyNone =>
                      \E i \in FiniteNamed(key) : output[key][p] = input[i]
            /\ FiniteNamed(key) = {} =>
                  output[key].top = PyNone /\ output[key].bottom = PyNone

\* the same, except that an infinite value counts as a number: this holds
C13_OnlyNumberedNamed ==
    pc = "extrema_done" =>
        \A key \in {"marks", "actual_count"} :
            /\ \A p \in {"top", "bottom"} :
                  output[key][p] # PyNone =>
                      \E i \in Admitted(key) : output[key][p] = input[i]
            /\ Admitted(key) = {} =>
                  output[key].top = PyNone /\ output[key].bottom = PyNone

-----------------------------------------------------------------------------
(* _safe_convert applied to every small value                              *)

\* values, target types and defaults of the calls
ConvertValues == ChangeValues \cup {PyFloat(-2700), PyInt(-3)}
ConvertTargets == {"int", "float"}
ConvertDefaults == {PyNone, PyInt(0), PyFloat(0), NA}

InitConvert ==
    /\ pc = "convert_call"
    /\ input \in [value : ConvertValues, target_type : ConvertTargets, default : ConvertDefaults]
    /\ output = PyNone
    /\ PipeIdle

\* _safe_convert(value, target_type, default): it returns, or an exception
\* that its except clause does not name leaves it
CallSafeConvert ==
    /\ pc = "convert_call"
    /\ output' = _safe_convert(input.value, input.target_type, input.default)
    /\ pc' = IF IsExc(output') THEN "convert_raised" ELSE "convert_done"
    /\ UNCHANGED <<input, pipeVars>>

NextConvert == CallSafeConvert

SpecConvert == InitConvert /\ [][NextConvert]_vars

\* the value converts to a finite number of the target kind
Convertible(value, target_type) ==
    IF target_type = "float" THEN value.t \in {"int", "float", "str_int", "str_dec"}
    ELSE value.t \in {"int", "float", "str_int"}

\* C14: _safe_convert never raises, for target kind int as well as float:
\* it returns the fallback when the value is None, when the value cannot be
\* converted, and when the value is NaN or +/-Infinity; otherwise it
\* returns the converted value.
C14_ConvertNeverRaises ==
    pc # "convert_call" =>
        /\ pc = "convert_done"
        /\ IF Convertible(input.value, input.target_type)
           THEN /\ output.t = input.target_type
                /\ output.v = IF input.target_type = "int" THEN Trunc(input.value.v)
                              ELSE input.value.v
           ELSE output = input.default

\* the same without the infinite values given to int(): this holds
C14_ConvertExceptInfiniteInt ==
    (pc # "convert_call"
        /\ ~(input.target_type = "int" /\ input.value.t \in {"inf", "ninf"})) =>
        /\ pc = "convert_done"
        /\ IF Convertible(input.value, input.target_type)
           THEN /\ output.t = input.target_type
                /\ output.v = IF input.target_type = "int" THEN Trunc(input.value.v)
                              ELSE input.value.v
           ELSE output = input.default

-----------------------------------------------------------------------------
(* utils.safe_get on nested trees                                          *)

AttributeError == [t |-> "AttributeError", v |-> 0]

\* a dict with the given items
PyDict(items) == [t |-> "dict", v |-> 0, d |-> items]

\* what the loop `for key in keys` (lines 64-66) leaves: temp after the last
\* key, the early `return default` on a None node, or the AttributeError of
\* calling .get on a node that is no dict
WalkEnded(temp) == [ended |-> "loop", temp |-> temp]
WalkReturnedDefault == [ended |-> "return", temp |-> PyNone]
WalkRaised == [ended |-> "raise", temp |-> AttributeError]

RECURSIVE SafeGetWalk(_, _, _)
SafeGetWalk(temp, keys, i) ==
    IF i > Len(keys) THEN WalkEnded(temp)
    ELSE IF temp = PyNone THEN WalkReturnedDefault
    ELSE IF temp.t # "dict" THEN WalkRaised
    ELSE SafeGetWalk(IF keys[i] \in DOMAIN temp.d THEN temp.d[keys[i]] ELSE PyNone, keys, i + 1)

\* the body of the try block (lines 64-70) after the walk
SafeGetUncaught(walk, default) ==
    CASE walk.ended = "raise" -> walk.temp
      [] walk.ended = "return" -> default
      [] walk.temp.t = "nan" -> default
      [] OTHER -> IF walk.temp # PyNone THEN walk.temp ELSE default

\* the try block without its except clause
SafeGetTryUncaught(walk, default) == SafeGetUncaught(walk, default)

\* the try block with `except Exception: return default` (lines 63-73)
SafeGetTry(walk, default) ==
    IF walk.ended = "raise" THEN default ELSE SafeGetUncaught(walk, default)

\* safe_get(data, keys, default) of utils.py
safe_get_path(data, keys, default) ==
    IF data.t # "dict" THEN default ELSE SafeGetTry(SafeGetWalk(data, keys, 1), default)

\* leaves of the trees, the dicts of leaves, and the trees: a leaf, or a
\* dict whose "a" is absent, a leaf or a dict of leaves and whose "b" is
\* absent or a leaf
SafeGetLeaves == {PyNone, NaN, PyFloat(12500), PyInt(0), StrBad}
SafeGetKeys == {"a", "b"}
DictsOver(keys, values) == {PyDict(f) : f \in UNION {[ks -> values] : ks \in SUBSET keys}}
SafeGetInner == SafeGetLeaves \cup DictsOver(SafeGetKeys, SafeGetLeaves)
SafeGetData ==
    SafeGetLeaves
    \cup DictsOver({"a"}, SafeGetInner)
    \cup {PyDict([k \in {"a", "b"} |-> IF k = "a" THEN x ELSE y]) :
             x \in SafeGetInner, y \in SafeGetLeaves}
    \cup DictsOver({"b"}, SafeGetLeaves)
SafeGetPaths == {<<>>, <<"a">>, <<"b">>, <<"a", "a">>, <<"a", "b">>, <<"b", "a">>}
SafeGetDefaults == {PyNone, PyFloat(0)}

InitSafeGet ==
    /\ pc = "safe_get_call"
    /\ input \in [data : SafeGetData, keys : SafeGetPaths, default : SafeGetDefaults]
    /\ output = PyNone
    /\ PipeIdle

CallSafeGet ==
    /\ pc = "safe_get_call"
    /\ output' = safe_get_path(input.data, input.keys, input.default)
    /\ pc' = IF output' = AttributeError THEN "safe_get_raised" ELSE "safe_get_done"
    /\ UNCHANGED <<input, pipeVars>>

NextSafeGet == CallSafeGet

SpecSafeGet == InitSafeGet /\ [][NextSafeGet]_vars

\* the node is a mapping that holds the key
Holds(node, key) == node.t = "dict" /\ key \in DOMAIN node.d

\* the path resolves: the record and every intermediate node are mappings
\* that hold the next key
PathResolves ==
    /\ input.data.t = "dict"
    /\ Len(input.keys) >= 1 => Holds(input.data, input.keys[1])
    /\ Len(input.keys) >= 2 => Holds(input.data.d[input.keys[1]], input.keys[2])

\* the value at the end of a path that resolves
ResolvedValue ==
    CASE Len(input.keys) = 0 -> input.data
      [] Len(input.keys) = 1 -> input.data.d[input.keys[1]]
      [] OTHER -> input.data.d[input.keys[1]].d[input.keys[2]]

\* C15: safe_get(record, path, default) never raises and returns default
\* whenever the record or an intermediate node on the path is not a
\* mapping, a key of the path is absent, or the resolved value is None or a
\* float NaN; in every other case it returns the resolved value itself.
C15_SafeGetNeverRaises ==
    pc # "safe_get_call" =>
        /\ pc = "safe_get_done"
        /\ output = IF ~PathResolves THEN input.default
                    ELSE IF ResolvedValue = PyNone \/ ResolvedValue.t = "nan" THEN input.default
                    ELSE ResolvedValue

\* the path a.b was asked of a record whose "a" is a number: the default
\* came back and nothing was raised
C15_Witness ==
    /\ pc = "safe_get_done"
    /\ input.keys = <<"a", "b">>
    /\ input.data.t = "dict"
    /\ "a" \in DOMAIN input.data.d
    /\ input.data.d["a"] = PyFloat(12500)
    /\ input.default = PyFloat(0)
    /\ output = PyFloat(0)

-----------------------------------------------------------------------------
(* the records a component normalizer produces                             *)

\* the normalized records that a date analysis holds
RecordsOf(date_analysis) ==
    {date_analysis.state_results_processed[i] :
        i \in 1..Len(date_analysis.state_results_processed)}
    \cup {date_analysis.block_level_data[i] : i \in 1..Len(date_analysis.block_level_data)}
    \cup (IF date_analysis.district_data = PyNone THEN {} ELSE {date_analysis.district_data})

\* the date analyses that the component run has built so far
DatesBuilt ==
    CASE pc = "component_fetch_previous" -> {current_data}
      [] pc \in {"component_compute", "component_done"} -> {current_data, previous_data}
      [] OTHER -> {}

\* C16: every normalized component record has a score that is a finite
\* number or the sentinel "N/A": whatever the raw score is (missing, null,
\* NaN, +/-Infinity, a numeric string, 'inf', 'nan' or garbage), no record
\* produced by a component normalizer carries an infinite or NaN score.
C16_ScoreFiniteOrNA ==
    \A date_analysis \in DatesBuilt :
        \A record \in RecordsOf(date_analysis) : IsFinite(record.marks) \/ record.marks = NA

-----------------------------------------------------------------------------
(* malformed records and failed fetches                                    *)

\* the names of the records of a processed list
ProcessedNames(processed) == {processed[i].name : i \in 1..Len(processed)}

\* C17: an individual malformed raw record (an invalid name, or a numeric
\* field that cannot be coerced: a non-numeric string, an infinite count, a
\* categories field that is not a mapping) never aborts the batch: the
\* aggregator does not raise, and every validly named record of the same
\* list is still processed and present in the output.
C17_MalformedNeverAborts ==
    /\ pc \notin {"raised", "component_raised"}
    /\ pc \in {"component_fetch_previous", "component_compute", "component_done"} =>
          \A i \in 1..Len(CurrentStateRaw) :
              HasValidName(CurrentStateRaw[i]) =>
                  CurrentStateRaw[i].name \in ProcessedNames(current_data.state_results_processed)
    /\ pc \in {"fetch_previous", "compute", "done"} =>
          \A item_data \in CurrentKpiRaw :
              (HasValidName(item_data) /\ StripUpper(item_data.name.s) # "") =>
                  StripUpper(item_data.name.s)
                      \in ProcessedNames(current_data.all_districts_processed)

\* the same for the runs that no infinite count or target stops: this holds
C17_OthersStillProcessed ==
    /\ pc \in {"component_fetch_previous", "component_compute", "component_done"} =>
          \A i \in 1..Len(CurrentStateRaw) :
              HasValidName(CurrentStateRaw[i]) =>
                  CurrentStateRaw[i].name \in ProcessedNames(current_data.state_results_processed)
    /\ pc \in {"fetch_previous", "compute", "done"} =>
          \A item_data \in CurrentKpiRaw :
              (HasValidName(item_data) /\ StripUpper(item_data.name.s) # "") =>
                  StripUpper(item_data.name.s)
                      \in ProcessedNames(current_data.all_districts_processed)

\* the state-level fetch of the date returned null
DateFailed(date) == responses[date][1].state.kind = "null"

\* the fetches of the date are reflected in its date analysis: every raw
\* state record that is not empty has its processed record, the record of
\* the selected district is there when the state list holds one under the
\* normalised name, and every named raw block has its block entry
DateProcessed(date, date_analysis) ==
    LET state_raw == ResultsOf(responses[date][1].state)
        block_raw == ResultsOf(responses[date][1].blocks)
        kept == {i \in 1..Len(state_raw) : state_raw[i].t # "empty"}
    IN  /\ Len(date_analysis.state_results_processed) = Cardinality(kept)
        /\ \A i \in kept :
              state_raw[i].name \in ProcessedNames(date_analysis.state_results_processed)
        /\ (\E i \in kept : state_raw[i].name = NameStr(StripUpper(input.district_name.s))) =>
              /\ date_analysis.district_data # PyNone
              /\ date_analysis.district_data.name = NameStr(StripUpper(input.district_name.s))
        /\ \A i \in 1..Len(block_raw) :
              (block_raw[i].t # "empty" /\ NameTruthy(block_raw[i].name)) =>
                  block_raw[i].name \in ProcessedNames(date_analysis.block_level_data)

\* the error field holds a non-empty text
HasErrorText(fetch_error) == fetch_error.t = "str" /\ Len(fetch_error.parts) > 0

NullOrEmpty(raw) == raw.kind = "null" \/ (raw.kind = "list" /\ Len(raw.results) = 0)

\* the dates whose analysis the run has built, with the analysis
ComponentDates ==
    CASE pc = "component_fetch_previous" -> {<<"current", current_data>>}
      [] pc \in {"component_compute", "component_done"} ->
            {<<"current", current_data>>, <<"previous", previous_data>>}
      [] OTHER -> {}

KpiDates ==
    CASE pc = "fetch_previous" -> {<<"current", current_data>>}
      [] pc \in {"compute", "done"} -> {<<"current", current_data>>, <<"previous", previous_data>>}
      [] OTHER -> {}

FailedResponses(date) ==
    Cardinality({c \in 1..Len(responses[date]) :
                    responses[date][c].kind \in {"null", "notlist"}})

C19_WitnessKpi ==
    /\ pc = "done"
    /\ \E c \in 1..Len(responses.current) : responses.current[c] = ListResponse(<<>>)
    /\ FailedResponses("current") = 0
    /\ current_data.fetch_error.t = "none"

-----------------------------------------------------------------------------
(* the argument checks of the six analyze entry points                     *)

EntryPoints == {"district_kpis", "farm_ponds", "dugwell", "old_works", "mybharat",
                "amrit_sarovar"}

\* `if not district_name or not report_date_str: return None`
MissingArgument(district_name, report_date) ==
    ~NameTruthy(district_name) \/ report_date = ""

\* datetime.strptime(report_date_str, "%Y-%m-%d") raises ValueError
StrptimeRaises(report_date) == report_date \notin ValidDates

\* analyze returns None before its first fetch: analyze_district_kpis.py,
\* analyze_farm_ponds.py, analyze_dugwell.py and analyze_old_works.py test
\* both arguments and parse the date, analyze_mybharat.py tests both
\* arguments, analyze_amrit_sarovar.py tests the district name
ReturnsNoneAtEntry(entry_point, district_name, report_date) ==
    CASE entry_point = "amrit_sarovar" -> ~NameTruthy(district_name)
      [] entry_point = "mybharat" -> MissingArgument(district_name, report_date)
      [] OTHER -> MissingArgument(district_name, report_date) \/ StrptimeRaises(report_date)

\* what the first fetch of an entry point may return
FirstResponses ==
    {NullResponse, ListResponse(<<>>),
     ListResponse(<<Entry(NameStr("BHOPAL"), PyFloat(5000), PyInt(3))>>)}

InitEntry ==
    /\ pc = "entry_start"
    /\ input \in [entry_point : EntryPoints, district_name : ComponentDistrictArgs,
                  report_date : KpiDateArgs]
    /\ output = PyNone
    /\ PipeIdle

\* the argument checks at the head of analyze
EntryValidate ==
    /\ pc = "entry_start"
    /\ pc' = IF ReturnsNoneAtEntry(input.entry_point, input.district_name, input.report_date)
             THEN "entry_aborted" ELSE "entry_fetching"
    /\ UNCHANGED <<input, output, pipeVars>>

\* the first call of fetch_api_data of the entry point
EntryFirstFetch ==
    /\ pc = "entry_fetching"
    /\ pc' = "entry_fetched"
    /\ \E raw_data \in FirstResponses :
          responses' = [responses EXCEPT !.current = <<raw_data>>]
    /\ UNCHANGED <<input, output, fetching, current_data, previous_data, current_ranks,
                   previous_ranks>>

NextEntry == EntryValidate \/ EntryFirstFetch

SpecEntry == InitEntry /\ [][NextEntry]_vars

\* the district name is absent or empty, the date is absent, or the date is
\* no valid YYYY-MM-DD date
MissingInput ==
    \/ input.district_name = NoName
    \/ input.district_name = NameStr("")
    \/ input.report_date = ""
    \/ input.report_date \notin ValidDates

\* C20: every analyze entry point (KPI, farm ponds, dugwell, old works,
\* MyBharat, Amrit Sarovar), given an absent or empty district name, an
\* absent date, or a date that is not a valid YYYY-MM-DD date, aborts the
\* call: it returns no result at all and issues no fetch.
C20_MissingInputAborts ==
    MissingInput =>
        /\ pc \in {"entry_start", "entry_aborted"}
        /\ output = PyNone
        /\ responses = NoResponses

\* the same for the four entry points that parse the date: this holds
C20_DatedEntryPointsAbort ==
    (MissingInput /\ input.entry_point \notin {"mybharat", "amrit_sarovar"}) =>
        /\ pc \in {"entry_start", "entry_aborted"}
        /\ output = PyNone
        /\ responses = NoResponses

-----------------------------------------------------------------------------
(* analyze_old_works.py                                                    *)

OLD_NRM_TARGET_CATEGORIES ==
    <<"Talab Nirman", "Check_Stop Dam", "Recharge Pit", "Koop Nirman",
      "Percolation Talab", "Khet Talab", "Other NRM Work">>

CategoryNames == {OLD_NRM_TARGET_CATEGORIES[i] : i \in 1..Len(OLD_NRM_TARGET_CATEGORIES)}

\* `x or d`
PyOr(x, d) ==
    IF x = PyNone \/ (x.t \in {"int", "float"} /\ x.v = 0) THEN d ELSE x

\* categories_api_data.get(category, {}) of a category without entry, as
\* the loop reads it: completed 0 and marks 0.0
AbsentCategory == [completed |-> PyInt(0), marks |-> PyFloat(0)]

\* a raw performance entry that is a dict: payment_details and
\* category_counts are absent, categories maps every category to its
\* `completed` and `marks`
PerfEntry(name, target_marks, payment_marks, categories) ==
    [t |-> "dict", name |-> name, target_marks |-> target_marks,
     payment_marks |-> payment_marks, categories |-> categories]

\* {} or None as a raw entry
EmptyPerfEntry ==
    [t |-> "empty", name |-> NoName, target_marks |-> PyNone, payment_marks |-> PyNone,
     categories |-> [c \in CategoryNames |-> AbsentCategory]]

\* the first exception among some values, None when there is none
FirstExc(values) ==
    LET raised == {i \in 1..Len(values) : values[i] \in {ValueError, TypeError, OverflowError}}
    IN  IF raised = {} THEN PyNone
        ELSE values[CHOOSE i \in raised : \A j \in raised : i <= j]

\* int(completed_val or 0) of every category, in the order of the loop
CompletedInts(categories) ==
    [i \in 1..Len(OLD_NRM_TARGET_CATEGORIES) |->
        PyIntOf(PyOr(categories[OLD_NRM_TARGET_CATEGORIES[i]].completed, PyInt(0)))]

\* work_type_details[category] (lines 61-84)
WorkTypeDetails(cat_perf_data) ==
    [target |-> NA,
     completed |-> cat_perf_data.completed,
     achievement_percentage |-> NA,
     marks |-> IF IsNumber(cat_perf_data.marks) THEN PyRound2(cat_perf_data.marks)
               ELSE PyFloat(0)]

\* the dict process_district_perf_data returns (lines 88-97)
PerfRecord(name, target_marks, payment_marks, completed_ints, categories) ==
    [name |-> name,
     overall_old_work_score |-> PyRound2(PyAdd(target_marks, payment_marks)),
     total_work_count |-> PyInt(0),
     total_work_completed |-> [t |-> "int", v |-> SumV(completed_ints)],
     target_achievement_marks |-> PyRound2(target_marks),
     financial_progress_marks |-> PyRound2(payment_marks),
     financial_progress_details |->
         [baseline_pending_lakhs |-> PyFloat(0), current_pending_lakhs |-> PyFloat(0),
          reduction_percentage |-> PyFloat(0), marks |-> PyRound2(payment_marks)],
     individual_work_types |-> [c \in CategoryNames |-> WorkTypeDetails(categories[c])]]

\* the exception that escapes process_district_perf_data, None when none
\* does: float() of the marks (lines 43-44), then int() of a completed
\* value (line 70)
PerfRaises(target_marks, payment_marks, completed_ints) ==
    FirstExc(<<target_marks, payment_marks>> \o completed_ints)

\* process_district_perf_data(raw_district_data): None, the processed
\* record, or the exception that escapes
process_district_perf_data(raw_district_data) ==
    IF raw_district_data.t # "dict" \/ ~NameTruthy(raw_district_data.name) THEN PyNone
    ELSE IF PerfRaises(
                PyFloatOf(PyOr(safe_get(raw_district_data.target_marks, PyFloat(0)), PyFloat(0))),
                PyFloatOf(PyOr(safe_get(raw_district_data.payment_marks, PyFloat(0)), PyFloat(0))),
                CompletedInts(raw_district_data.categories)) # PyNone
    THEN PerfRaises(
                PyFloatOf(PyOr(safe_get(raw_district_data.target_marks, PyFloat(0)), PyFloat(0))),
                PyFloatOf(PyOr(safe_get(raw_district_data.payment_marks, PyFloat(0)), PyFloat(0))),
                CompletedInts(raw_district_data.categories))
    ELSE PerfRecord(
                raw_district_data.name,
                PyFloatOf(PyOr(safe_get(raw_district_data.target_marks, PyFloat(0)), PyFloat(0))),
                PyFloatOf(PyOr(safe_get(raw_district_data.payment_marks, PyFloat(0)), PyFloat(0))),
                CompletedInts(raw_district_data.categories),
                raw_district_data.categories)

\* safe_get(blocks_raw, ['blocks'], [])
BlockListOf(blocks_raw) == IF blocks_raw.kind = "list" THEN blocks_raw.results ELSE <<>>

\* the processed entries of the state list, in order, with the exceptions
\* that escape
ProcessPerfAll(results_raw) ==
    [i \in 1..Len(results_raw) |-> process_district_perf_data(results_raw[i])]

\* next((d for d in state_results_processed if d.get(NAME_KEY) ==
\* district_name_upper), None) (line 151)
SelectedPerfData(state_results_processed, district_name_upper) ==
    LET hits == {i \in 1..Len(state_results_processed) :
                    state_results_processed[i].name = NameStr(district_name_upper)}
    IN  IF hits = {} THEN PyNone
        ELSE state_results_processed[CHOOSE i \in hits : \A j \in hits : i <= j]

\* block_data_map.get(block_name) (lines 168-171): the last raw block entry
\* of that name, None when there is none
BlockRawData(block_results_raw, block_name) ==
    LET hits == {i \in 1..Len(block_results_raw) :
                    /\ block_results_raw[i].t = "dict"
                    /\ block_results_raw[i].name = NameStr(block_name)}
    IN  IF hits = {} THEN PyNone
        ELSE block_results_raw[CHOOSE i \in hits : \A j \in hits : j <= i]

\* block_completed_counts of one block (lines 172-179): 0 for every
\* category when the block has no raw entry
BlockCompletedCounts(block_raw_data) ==
    [c \in CategoryNames |->
        IF block_raw_data = PyNone THEN PyInt(0)
        ELSE PyIntOf(PyOr(safe_get(block_raw_data.categories[c].completed, PyInt(0)),
                          PyInt(0)))]

\* block_level_data_completed_counts (lines 158-180): empty when the block
\* list is empty or the block fetch gave no entries, else one entry per
\* block of the list
CompletedCountsByBlock(block_list, block_results_raw) ==
    IF Len(block_list) = 0 \/ Len(block_results_raw) = 0 THEN <<>>
    ELSE [b \in {block_list[i] : i \in 1..Len(block_list)} |->
             BlockCompletedCounts(BlockRawData(block_results_raw, b))]

\* the exception int() raises in the block loop, None when it raises none
BlockCountsRaise(block_level_data) ==
    IF \E b \in DOMAIN block_level_data : \E c \in CategoryNames : IsExc(block_level_data[b][c])
    THEN LET b == CHOOSE b \in DOMAIN block_level_data :
                      \E c \in CategoryNames : IsExc(block_level_data[b][c])
         IN  block_level_data[b][CHOOSE c \in CategoryNames : IsExc(block_level_data[b][c])]
    ELSE PyNone

\* fetch_errors of one date (lines 139-141, 159-166)
OldWorksFetchErrors(state_results_perf_raw, block_list, block_results_raw) ==
    (IF Len(state_results_perf_raw) = 0
     THEN <<"Could not fetch state-level performance data">> ELSE <<>>)
    \o (IF Len(block_list) = 0 THEN <<"Block list empty, cannot fetch block breakdown">>
        ELSE IF Len(block_results_raw) = 0
        THEN <<"Could not fetch block-level performance data">>
        ELSE <<>>)

\* date_analysis (lines 130-133 and 139-182), or the exception that escapes
OldWorksDateAnalysis(processed, district_name_upper, block_level_data, fetch_errors) ==
    IF FirstExc(processed) # PyNone THEN FirstExc(processed)
    ELSE IF BlockCountsRaise(block_level_data) # PyNone THEN BlockCountsRaise(block_level_data)
    ELSE [state_results_processed |-> SelectSeq(processed, LAMBDA d : d # PyNone),
          district_data |->
              SelectedPerfData(SelectSeq(processed, LAMBDA d : d # PyNone),
                               district_name_upper),
          block_level_data_completed_counts |-> block_level_data,
          fetch_error |-> JoinedErrors(fetch_errors)]

\* _fetch_and_process_data_for_date(district_name, target_date, block_list)
\* of analyze_old_works.py: fetched holds what the state fetch and the
\* block fetch of the date return
old_works_fetch_and_process_data_for_date(district_name, block_list, fetched) ==
    OldWorksDateAnalysis(
        ProcessPerfAll(ResultsOf(fetched.state)),
        StripUpper(district_name.s),
        CompletedCountsByBlock(block_list, ResultsOf(fetched.blocks)),
        OldWorksFetchErrors(ResultsOf(fetched.state), block_list, ResultsOf(fetched.blocks)))

\* f restricted to the keys in S
Restrict(f, S) == [k \in S |-> f[k]]

\* individual_changes[category] as computed for every category (lines
\* 388-393)
CategoryChange(curr_cat_data, prev_cat_data) ==
    [completed_change |->
         [t |-> "int",
          v |-> PyIntOf(safe_get(curr_cat_data.completed, PyInt(0))).v
                    - PyIntOf(safe_get(prev_cat_data.completed, PyInt(0))).v],
     marks_change |->
         PyRound2(PySub(PyFloatOf(safe_get(curr_cat_data.marks, PyFloat(0))),
                        PyFloatOf(safe_get(prev_cat_data.marks, PyFloat(0)))))]

\* a category kept only when both of its changes are non-zero
CategoryChangeKeptBoth(category_change) ==
    category_change.completed_change.v # 0 /\ ~PyEq(category_change.marks_change, PyFloat(0))

\* `if completed_change != 0 or marks_change != 0.0` (line 394)
CategoryChangeKept(category_change) ==
    category_change.completed_change.v # 0 \/ ~PyEq(category_change.marks_change, PyFloat(0))

\* individual_changes (lines 386-394)
IndividualChanges(curr_types, prev_types) ==
    Restrict([c \in CategoryNames |-> CategoryChange(curr_types[c], prev_types[c])],
             {c \in CategoryNames :
                 CategoryChangeKept(CategoryChange(curr_types[c], prev_types[c]))})

\* x - y on ints
IntSub(x, y) == [t |-> "int", v |-> x.v - y.v]

\* selected_district_comparison.change (lines 375-405): the processed
\* records hold floats and ints that float() and int() accept
OldWorksDistrictChange(curr_dist_data, prev_dist_data) ==
    IF curr_dist_data # PyNone /\ prev_dist_data # PyNone
    THEN [score_change |->
              PyRound2(PySub(PyFloatOf(safe_get(curr_dist_data.overall_old_work_score, PyFloat(0))),
                             PyFloatOf(safe_get(prev_dist_data.overall_old_work_score, PyFloat(0))))),
          count_change |->
              IntSub(PyIntOf(curr_dist_data.total_work_count),
                     PyIntOf(prev_dist_data.total_work_count)),
          total_work_completed_change |->
              IntSub(PyIntOf(curr_dist_data.total_work_completed),
                     PyIntOf(prev_dist_data.total_work_completed)),
          financial_marks_change |->
              PyRound2(PySub(PyFloatOf(safe_get(curr_dist_data.financial_progress_marks, PyFloat(0))),
                             PyFloatOf(safe_get(prev_dist_data.financial_progress_marks, PyFloat(0))))),
          individual_work_type_changes |->
              IndividualChanges(curr_dist_data.individual_work_types,
                                prev_dist_data.individual_work_types)]
    ELSE IF curr_dist_data # PyNone
    THEN [status |-> "Previous day data unavailable for district"]
    ELSE PyNone

\* simplify_performer_data(performer_data)
simplify_performer_data(performer_data) ==
    IF performer_data = PyNone THEN PyNone
    ELSE Restrict(performer_data, DOMAIN performer_data \ {"individual_work_types"})

\* get_top_bottom_performers_full / get_top_bottom_by_count_full on the
\* processed records under the key score_key
PerfTopBottom(processed_state_data, score_key) ==
    get_top_bottom_by_field(
        [i \in 1..Len(processed_state_data) |->
            [key |-> safe_get(processed_state_data[i][score_key], PyNone),
             name |-> processed_state_data[i].name,
             item |-> processed_state_data[i]]],
        TRUE)

\* safe_get(cat_details, ["marks"], 0.0) of a district for a category
LeaderMarks(district_data, category) ==
    safe_get(district_data.individual_work_types[category].marks, PyFloat(0))

\* find_category_leaders(processed_state_data) for one category: the first
\* district whose marks exceed -1.0 and every earlier district's marks
CategoryLeader(processed_state_data, category) ==
    LET leaders == {i \in 1..Len(processed_state_data) :
                       /\ PyLt(PyFloat(-1000), LeaderMarks(processed_state_data[i], category))
                       /\ \A j \in 1..Len(processed_state_data) :
                             \/ j = i
                             \/ PyLt(LeaderMarks(processed_state_data[j], category),
                                     LeaderMarks(processed_state_data[i], category))
                             \/ (j > i /\ ~PyLt(LeaderMarks(processed_state_data[i], category),
                                                LeaderMarks(processed_state_data[j], category)))}
    IN  IF leaders = {} THEN [name |-> NameStr("N/A"), category_details |-> PyNone]
        ELSE LET i == CHOOSE i \in leaders : TRUE
             IN  [name |-> processed_state_data[i].name,
                  category_details |-> processed_state_data[i].individual_work_types[category]]

\* find_category_leaders(processed_state_data)
find_category_leaders(processed_state_data) ==
    IF Len(processed_state_data) = 0 THEN <<>>
    ELSE [c \in CategoryNames |-> CategoryLeader(processed_state_data, c)]

\* financial_stats (lines 428-455): every reduction_percentage is 0.0
FinancialStats(processed_state_data) ==
    [median_reduction |-> PyFloat(0), mean_reduction |-> PyFloat(0),
     count_districts_calculated |-> Len(processed_state_data)]

\* the block names that occur, in the order of str comparison
BlockNameOrder == <<"BERASIA", "HUZUR", "PHANDA">>

NameRank(block_name) == CHOOSE i \in 1..Len(BlockNameOrder) : BlockNameOrder[i] = block_name

\* current_blocks_completed.get(block_name, {})
CountsOfBlock(blocks_completed, block_name) ==
    IF block_name \in DOMAIN blocks_completed THEN blocks_completed[block_name] ELSE <<>>

\* int(counts.get(category, 0))
CountOfCategory(counts, category) ==
    IF category \in DOMAIN counts THEN PyIntOf(counts[category]) ELSE PyInt(0)

\* block_changes of one block (lines 468-475): the categories of either
\* day whose count differs, the count of a day without the category being 0
BlockChanges(today_counts, yesterday_counts) ==
    [c \in {c \in (DOMAIN today_counts) \cup ((DOMAIN yesterday_counts) \cap CategoryNames) :
               CountOfCategory(today_counts, c).v # CountOfCategory(yesterday_counts, c).v} |->
        IntSub(CountOfCategory(today_counts, c), CountOfCategory(yesterday_counts, c))]

\* block_comp_entry (lines 476-480)
BlockCompEntry(block_name, today_counts, yesterday_counts) ==
    [name |-> block_name,
     completed_works_by_type_till_today |-> today_counts,
     completed_works_change_by_type |-> BlockChanges(today_counts, yesterday_counts)]

\* block_level_comparison (lines 462-483), sorted by name
OldWorksBlockComparison(block_list, current_blocks_completed, previous_blocks_completed) ==
    LET sorted == SortAsc([i \in 1..Len(block_list) |->
            [key |-> PyInt(NameRank(block_list[i])),
             item |-> BlockCompEntry(block_list[i],
                          CountsOfBlock(current_blocks_completed, block_list[i]),
                          CountsOfBlock(previous_blocks_completed, block_list[i]))]])
    IN  [i \in 1..Len(sorted) |-> sorted[i].item]

\* the result analyze returns when the block list could not be fetched
\* (lines 318-334)
BlockListFailure(district_name) ==
    [component |-> "Old Works (NRM)", max_marks |-> PyFloat(20000),
     selected_district |-> district_name,
     report_date |-> "report_date_str", previous_report_date |-> "previous_date_str",
     error |-> "Could not fetch block list. Analysis aborted.",
     explanation |-> [error_prefix |-> FALSE],
     selected_district_comparison |-> <<>>,
     state_level_summary_today |-> <<>>,
     block_level_comparison |-> <<>>,
     state_category_leaders_today |-> <<>>,
     state_context |->
         [financial_stats |->
             [median_reduction |-> PyFloat(0), mean_reduction |-> PyFloat(0),
              count_districts_calculated |-> 0]]]

\* fetch_error and fetch_error.startswith("Warning:"): the messages of
\* lines 140, 160 and 165 start with "Could not fetch" or "Block list empty"
StartsWithWarning(fetch_error) ==
    fetch_error.t = "str" /\ fetch_error.parts[1] \in {}

\* the keys the final cleanup pops (lines 491-492)
PoppedKeys(current_analysis_error, previous_analysis_error) ==
    (IF StartsWithWarning(current_analysis_error) THEN {"current_analysis_error"} ELSE {})
    \cup (IF StartsWithWarning(previous_analysis_error) THEN {"previous_analysis_error"}
          ELSE {})

\* state_level_summary_today (lines 408-423)
OldWorksStateSummary(processed_state_perf_results_today) ==
    [by_score |->
         [top_performer |-> simplify_performer_data(
              PerfTopBottom(processed_state_perf_results_today, "overall_old_work_score").top),
          bottom_performer |-> simplify_performer_data(
              PerfTopBottom(processed_state_perf_results_today, "overall_old_work_score").bottom)],
     by_count |->
         Performers(PerfTopBottom(processed_state_perf_results_today, "total_work_completed"))]

\* the keys of analysis_result as initialised (lines 341-369)
OldWorksResultKeys ==
    {"component", "max_marks", "selected_district", "report_date", "previous_report_date",
     "explanation", "selected_district_comparison", "state_level_summary_today",
     "block_level_comparison", "state_category_leaders_today", "state_context",
     "current_analysis_error", "previous_analysis_error"}

\* analysis_result as built by lines 341-487, before the final cleanup
OldWorksResultBuilt(district_name, block_list, current_analysis_data, previous_analysis_data) ==
    [component |-> "Old Works (NRM)", max_marks |-> PyFloat(20000),
     selected_district |-> district_name,
     report_date |-> "report_date_str", previous_report_date |-> "previous_date_str",
     explanation |->
         [error_prefix |-> current_analysis_data.district_data = PyNone
                           /\ Len(current_analysis_data.state_results_processed) = 0],
     selected_district_comparison |->
         [current_data |-> current_analysis_data.district_data,
          change |-> OldWorksDistrictChange(current_analysis_data.district_data,
                                            previous_analysis_data.district_data)],
     state_level_summary_today |->
         OldWorksStateSummary(current_analysis_data.state_results_processed),
     block_level_comparison |->
         OldWorksBlockComparison(block_list,
                                 current_analysis_data.block_level_data_completed_counts,
                                 previous_analysis_data.block_level_data_completed_counts),
     state_category_leaders_today |->
         find_category_leaders(current_analysis_data.state_results_processed),
     state_context |->
         [financial_stats |-> FinancialStats(current_analysis_data.state_results_processed)],
     current_analysis_error |-> current_analysis_data.fetch_error,
     previous_analysis_error |-> previous_analysis_data.fetch_error]

\* analysis_result of analyze_old_works.analyze (lines 341-497)
OldWorksResult(district_name, block_list, current_analysis_data, previous_analysis_data) ==
    Restrict(
        OldWorksResultBuilt(district_name, block_list, current_analysis_data,
                            previous_analysis_data),
        OldWorksResultKeys
            \ PoppedKeys(current_analysis_data.fetch_error, previous_analysis_data.fetch_error))

-----------------------------------------------------------------------------
(* analyze of analyze_old_works.py on small inputs                         *)

\* categories with an entry for "Talab Nirman" only
OneCategory(completed, marks) ==
    [c \in CategoryNames |->
        IF c = "Talab Nirman" THEN [completed |-> completed, marks |-> marks]
        ELSE AbsentCategory]

\* categories with entries for "Talab Nirman" and "Khet Talab"
TwoCategories(completed, marks, completed2, marks2) ==
    [c \in CategoryNames |->
        IF c = "Talab Nirman" THEN [completed |-> completed, marks |-> marks]
        ELSE IF c = "Khet Talab" THEN [completed |-> completed2, marks |-> marks2]
        ELSE AbsentCategory]

\* a raw district entry: target marks 5.0, payment marks as given
District(name, payment_marks, categories) ==
    PerfEntry(NameStr(name), PyFloat(5000), payment_marks, categories)

\* a raw block entry with a completed count for "Talab Nirman"
Block(name, completed) ==
    PerfEntry(NameStr(name), PyNone, PyNone, OneCategory(completed, PyFloat(0)))

\* what the fetch of the block list may return
BlockListResponses ==
    {NullResponse, ListResponse(<<>>), ListResponse(<<"PHANDA", "BERASIA">>),
     ListResponse(<<"BERASIA">>)}

\* what the state-level performance fetch of a date may return
PerfStateResponses(date) ==
    IF date = "current"
    THEN {NullResponse,
          ListResponse(<<>>),
          ListResponse(<<District("BHOPAL", PyFloat(3000), OneCategory(PyInt(5), PyFloat(1000)))>>),
          ListResponse(<<District("Bhopal", PyFloat(3000), OneCategory(PyInt(5), PyFloat(1000)))>>),
          ListResponse(<<District(" BHOPAL ", PyFloat(3000), OneCategory(PyInt(5), PyFloat(1000)))>>),
          ListResponse(<<District("BHOPAL", PyFloat(3000), OneCategory(PyInt(7), PyFloat(1000)))>>),
          ListResponse(<<District("BHOPAL", PyFloat(3000), OneCategory(PyInt(5), PyFloat(1500)))>>),
          ListResponse(<<District("BHOPAL", PyFloat(3000), OneCategory(PyFloat(5700), PyFloat(1004)))>>),
          ListResponse(<<District("BHOPAL", PyFloat(3000),
                                  TwoCategories(PyInt(5), PyFloat(1000), StrInt(2), PosInf))>>),
          ListResponse(<<District("INDORE", PyFloat(4000), OneCategory(PyInt(9), PyFloat(2000))),
                         EmptyPerfEntry,
                         District("BHOPAL", PyFloat(3000), OneCategory(PyNone, NaN))>>),
          ListResponse(<<District("BHOPAL", StrBad, OneCategory(PyInt(5), PyFloat(1000)))>>),
          ListResponse(<<District("BHOPAL", PyFloat(3000), OneCategory(PosInf, PyFloat(1000)))>>)}
    ELSE {NullResponse,
          ListResponse(<<District("BHOPAL", PyFloat(3000), OneCategory(PyInt(5), PyFloat(1000)))>>),
          ListResponse(<<District("BHOPAL", PyFloat(2500),
                                  TwoCategories(PyInt(3), PyFloat(500), PyInt(2), PosInf))>>),
          ListResponse(<<District("INDORE", PyFloat(4000), OneCategory(PyInt(9), PyFloat(2000)))>>)}

\* what the block-level performance fetch of a date may return
PerfBlockResponses(date) ==
    IF date = "current"
    THEN {NullResponse,
          ListResponse(<<Block("BERASIA", PyInt(4))>>),
          ListResponse(<<Block("PHANDA", PyInt(2)), Block("BERASIA", PyInt(4))>>),
          ListResponse(<<Block("BERASIA", StrBad)>>)}
    ELSE {NullResponse,
          ListResponse(<<Block("BERASIA", PyInt(4))>>),
          ListResponse(<<Block("BERASIA", PyInt(1)), Block("PHANDA", PyInt(2))>>),
          ListResponse(<<Block("PHANDA", PyInt(1))>>)}

\* everything the fetches of one date may return
PerfDateFetches(date) == [state : PerfStateResponses(date), blocks : PerfBlockResponses(date)]

\* block_list of the run
block_list == BlockListOf(responses.blocks[1])

InitOldWorks ==
    /\ pc = "old_works_start"
    /\ input \in [district_name : KpiDistrictArgs, report_date_str : KpiDateArgs]
    /\ output = PyNone
    /\ PipeIdle

\* the argument checks of analyze (lines 302-311)
OldWorksValidate ==
    /\ pc = "old_works_start"
    /\ pc' = IF MissingArgument(input.district_name, input.report_date_str)
                \/ StrptimeRaises(input.report_date_str)
             THEN "old_works_aborted" ELSE "old_works_fetch_blocks"
    /\ UNCHANGED <<input, output, pipeVars>>

\* the fetch of the block list (lines 314-334): without a block list the
\* analysis is aborted with an error result
OldWorksFetchBlocks ==
    /\ pc = "old_works_fetch_blocks"
    /\ \E blocks_raw \in BlockListResponses :
          /\ responses' = [current |-> <<>>, previous |-> <<>>, blocks |-> <<blocks_raw>>]
          /\ IF Len(BlockListOf(blocks_raw)) = 0
             THEN pc' = "old_works_done" /\ output' = BlockListFailure(input.district_name.s)
             ELSE pc' = "old_works_fetch_current" /\ UNCHANGED output
    /\ UNCHANGED <<input, fetching, current_data, previous_data, current_ranks, previous_ranks>>

\* _fetch_and_process_data_for_date(district_name, report_date_str, block_list)
OldWorksFetchCurrent ==
    /\ pc = "old_works_fetch_current"
    /\ \E fetched \in PerfDateFetches("current") :
          LET date_analysis ==
                  old_works_fetch_and_process_data_for_date(input.district_name, block_list, fetched)
          IN  /\ responses' = [responses EXCEPT !.current = <<fetched>>]
              /\ IF date_analysis \in {ValueError, TypeError, OverflowError}
                 THEN pc' = "old_works_raised" /\ UNCHANGED current_data
                 ELSE pc' = "old_works_fetch_previous" /\ current_data' = date_analysis
    /\ UNCHANGED <<input, output, fetching, previous_data, current_ranks, previous_ranks>>

\* _fetch_and_process_data_for_date(district_name, previous_date_str, block_list)
OldWorksFetchPrevious ==
    /\ pc = "old_works_fetch_previous"
    /\ \E fetched \in PerfDateFetches("previous") :
          LET date_analysis ==
                  old_works_fetch_and_process_data_for_date(input.district_name, block_list, fetched)
          IN  /\ responses' = [responses EXCEPT !.previous = <<fetched>>]
              /\ IF date_analysis \in {ValueError, TypeError, OverflowError}
                 THEN pc' = "old_works_raised" /\ UNCHANGED previous_data
                 ELSE pc' = "old_works_compute" /\ previous_data' = date_analysis
    /\ UNCHANGED <<input, output, fetching, current_data, current_ranks, previous_ranks>>

\* the rest of analyze (lines 341-497)
OldWorksCompute ==
    /\ pc = "old_works_compute"
    /\ pc' = "old_works_done"
    /\ output' = OldWorksResult(input.district_name.s, block_list, current_data, previous_data)
    /\ UNCHANGED <<input, pipeVars>>

NextOldWorks ==
    \/ OldWorksValidate
    \/ OldWorksFetchBlocks
    \/ OldWorksFetchCurrent
    \/ OldWorksFetchPrevious
    \/ OldWorksCompute

SpecOldWorks == InitOldWorks /\ [][NextOldWorks]_vars

-----------------------------------------------------------------------------
(* the shape of the result structures                                      *)

\* a result structure of analyze_old_works.analyze has been returned
OldWorksReturned == pc = "old_works_done"

\* C21: for a given component, every result structure returned by analyze
\* has the same set of keys, at the top level and inside its fixed
\* sub-structures (selected_district_comparison, state_level_summary_today,
\* state_context), whether or not any data could be fetched; absent data is
\* null or an empty collection, never a missing key.
C21_StableShape ==
    OldWorksReturned =>
        /\ DOMAIN output = OldWorksResultKeys
        /\ DOMAIN output.selected_district_comparison = {"current_data", "change"}
        /\ DOMAIN output.state_level_summary_today = {"by_score", "by_count"}
        /\ DOMAIN output.state_context = {"financial_stats"}

\* the same for the results of a run whose block list was fetched: this
\* holds
C21_StableShapeWithBlockList ==
    (OldWorksReturned /\ Len(block_list) > 0) =>
        /\ DOMAIN output = OldWorksResultKeys
        /\ DOMAIN output.selected_district_comparison = {"current_data", "change"}
        /\ DOMAIN output.state_level_summary_today = {"by_score", "by_count"}
        /\ DOMAIN output.state_context = {"financial_stats"}

-----------------------------------------------------------------------------
(* _fetch_and_process_state_data_for_date and calculate_ranks on the       *)
(* responses of one date                                                   *)

RECURSIVE ComponentLoop(_, _, _)
\* the component loop (lines 125-185) from component i on; raw_data holds
\* what fetch_api_data returns for each component
ComponentLoop(st, raw_data, i) ==
    IF i > Len(COMPONENTS) THEN st
    ELSE ComponentLoop(ProcessComponent(st, COMPONENTS[i], raw_data[i]), raw_data, i + 1)

\* _fetch_and_process_state_data_for_date(target_date): the returned dict,
\* or the exception that escapes the component loop
_fetch_and_process_state_data_for_date(raw_data) ==
    IF ComponentLoop(EmptySt, raw_data, 1).raised THEN OverflowError
    ELSE FinishDate(ComponentLoop(EmptySt, raw_data, 1))

\* what the fetch of each component may return
TotalsResponses(comp_key) ==
    CASE comp_key = "performance" ->
            {NullResponse,
             ListResponse(<<PerfItem(NameStr("BHOPAL"), PyFloat(10000), PyFloat(5000), PyNone),
                            PerfItem(NameStr("Indore"), Huge, PyFloat(1000), PyNone)>>),
             ListResponse(<<PerfItem(NameStr("SAGAR"), PyFloat(2005), StrBad, PyNone)>>)}
      [] comp_key = "farm_ponds" ->
            {ListResponse(<<>>),
             ListResponse(<<Item(NameStr(" BHOPAL "), PyFloat(7124), PyInt(5)),
                            Item(NameStr("INDORE"), Huge, PyInt(3))>>),
             ListResponse(<<Item(NameStr("SAGAR"), PyFloat(8000), PyInt(1)),
                            Item(NoName, PyFloat(30000), PyInt(9)),
                            Item(NameStr("Sagar"), PosInf, PyInt(2))>>)}
      [] comp_key = "dugwell" ->
            {NullResponse,
             ListResponse(<<Item(NameStr(" indore"), Huge, PyInt(2)),
                            Item(NameStr("UJJAIN"), PyFloat(2500), PyInt(1))>>),
             ListResponse(<<Item(NameStr("bhopal"), PyFloat(1006), PyInt(1))>>)}
      [] comp_key = "amrit_sarovar" ->
            {NotListResponse,
             ListResponse(<<Item(NameStr("Bhopal"), PyFloat(3000), PyInt(1))>>)}
      [] comp_key = "mybharat" ->
            {NullResponse,
             ListResponse(<<RawItem(NameStr("SAGAR"), PyFloat(1500), PyInt(7), PyInt(10),
                                    PyNone, PyNone, PyNone)>>),
             ListResponse(<<RawItem(NameStr("UJJAIN"), StrDec(2250), PyInt(7), PyInt(10),
                                    PyNone, PyNone, PyNone),
                            NonDictItem>>)}

InitTotals ==
    /\ pc = "totals_call"
    /\ input \in {raw_data \in [1..Len(COMPONENTS) -> UNION {TotalsResponses(COMPONENTS[i]) :
                                                            i \in 1..Len(COMPONENTS)}] :
                     \A i \in 1..Len(COMPONENTS) : raw_data[i] \in TotalsResponses(COMPONENTS[i])}
    /\ output = PyNone
    /\ PipeIdle

\* _fetch_and_process_state_data_for_date(report_date_str)
CallFetchAndProcessStateData ==
    /\ pc = "totals_call"
    /\ IF _fetch_and_process_state_data_for_date(input) = OverflowError
       THEN pc' = "totals_raised" /\ UNCHANGED current_data
       ELSE pc' = "totals_processed"
            /\ current_data' = _fetch_and_process_state_data_for_date(input)
    /\ UNCHANGED <<input, output, fetching, previous_data, current_ranks, previous_ranks,
                   responses>>

\* calculate_ranks(current_processed_map)
CallCalculateRanksOfDate ==
    /\ pc = "totals_processed"
    /\ pc' = "totals_ranked"
    /\ current_ranks' = calculate_ranks(current_data.all_districts_processed)
    /\ UNCHANGED <<input, output, fetching, current_data, previous_data, previous_ranks,
                   responses>>

NextTotals == CallFetchAndProcessStateData \/ CallCalculateRanksOfDate

SpecTotals == InitTotals /\ [][NextTotals]_vars

\* the districts of the processed map
Districts == {current_data.all_districts_processed[i] :
                 i \in 1..Len(current_data.all_districts_processed)}

\* the six marks of a district, a component it has no entry for counting 0
MarkValues(d) ==
    <<safe_get(d.performance.target_marks, PyFloat(0)),
      safe_get(d.performance.payment_marks, PyFloat(0)),
      safe_get(d.farm_ponds.marks, PyFloat(0)),
      safe_get(d.dugwell.marks, PyFloat(0)),
      safe_get(d.amrit_sarovar.marks, PyFloat(0)),
      safe_get(d.mybharat.marks, PyFloat(0))>>

\* the sum of the six marks is beyond the largest float
SumOverflows(d) == SumV(MarkValues(d)) > FloatMax

\* C22 as stated: a district whose sum of marks is not a finite number has
\* total_marks = null and no rank, and every other district has a total
C22_NonFiniteTotalIsNull ==
    pc \in {"totals_processed", "totals_ranked"} =>
        \A d \in Districts :
            IF SumOverflows(d)
            THEN /\ d.total_marks = PyNone
                 /\ pc = "totals_ranked" => d.name \notin DOMAIN current_ranks
            ELSE d.total_marks # PyNone

\* C22: in the KPI aggregator, a district whose sum of marks is not a finite
\* number gets total_marks = 0.0, not null, and is ranked with that total;
\* the totals of all other districts are still computed.
C22_NonFiniteTotalIsZero ==
    pc \in {"totals_processed", "totals_ranked"} =>
        \A d \in Districts :
            IF SumOverflows(d)
            THEN /\ d.total_marks = PyFloat(0)
                 /\ pc = "totals_ranked" => d.name \in DOMAIN current_ranks
            ELSE d.total_marks = PyFloat(Round2(SumV(MarkValues(d))))

\* a ranked date with a district whose sum overflowed and another district
\* with a total above 0
C22_Witness ==
    /\ pc = "totals_ranked"
    /\ \E d, e \in Districts :
          /\ SumOverflows(d)
          /\ d.total_marks = PyFloat(0)
          /\ ~SumOverflows(e)
          /\ e.total_marks.v > 0
          /\ current_ranks[e.name] < current_ranks[d.name]

\* the trimmed, upper-cased names of the entries of the five result lists
\* that are dicts with a non-empty string under the name key
NamesSeen ==
    UNION {{StripUpper(input[c].results[i].name.s) :
               i \in {i \in 1..Len(input[c].results) :
                         /\ input[c].results[i].t = "dict"
                         /\ input[c].results[i].name.t = "str"
                         /\ StripUpper(input[c].results[i].name.s) # ""}} :
           c \in 1..Len(COMPONENTS)}

\* one entry per name seen in any component
OneEntryPerName ==
    /\ {d.name : d \in Districts} = NamesSeen
    /\ Len(current_data.all_districts_processed) = Cardinality(NamesSeen)

\* C23 as stated: one entry per distinct trimmed, upper-cased name seen in
\* any of the five components, and each entry's total_marks is the sum of
\* its six marks rounded to 2 decimals, a component without the district
\* contributing 0
C23_UnionAndRoundedSum ==
    pc \in {"totals_processed", "totals_ranked"} =>
        /\ OneEntryPerName
        /\ \A d \in Districts :
              d.total_marks = IF SumOverflows(d) THEN PosInf
                              ELSE PyFloat(Round2(SumV(MarkValues(d))))

\* C23: for one date, all_districts_processed has exactly one entry per
\* distinct trimmed, upper-cased name seen in the result list of any of the
\* five components (union, not intersection), and each entry's total_marks
\* equals, rounded to 2 decimals, the sum of its six marks whenever that sum
\* is a finite number, a component in which the district does not appear
\* contributing 0.
C23_UnionAndFiniteRoundedSum ==
    pc \in {"totals_processed", "totals_ranked"} =>
        /\ OneEntryPerName
        /\ \A d \in Districts :
              ~SumOverflows(d) => d.total_marks = PyFloat(Round2(SumV(MarkValues(d))))

\* a date with a district seen in one component only and a district seen in
\* three, whose marks add up to a total that rounding changes
C23_Witness ==
    /\ pc = "totals_processed"
    /\ \E d, e \in Districts :
          /\ d.name = "UJJAIN"
          /\ d.mybharat.present /\ ~d.farm_ponds.present /\ ~d.dugwell.present
          /\ d.total_marks = PyFloat(2250)
          /\ e.name = "BHOPAL"
          /\ e.performance.present /\ e.farm_ponds.present /\ e.dugwell.present
          /\ e.total_marks = PyFloat(23130)

-----------------------------------------------------------------------------
(* the old-works district comparison                                       *)

\* analyze has returned a result whose change was calculated from the
\* district's records of both dates
ChangeCalculated ==
    /\ pc = "old_works_done"
    /\ Len(block_list) > 0
    /\ current_data.district_data # PyNone
    /\ previous_data.district_data # PyNone

individual_work_type_changes ==
    output.selected_district_comparison.change.individual_work_type_changes

\* the completed count of a category as int() reads it, and its marks
CompletedOf(dist_data, c) ==
    PyIntOf(safe_get(dist_data.individual_work_types[c].completed, PyInt(0))).v

MarksOf(dist_data, c) == safe_get(dist_data.individual_work_types[c].marks, PyFloat(0))

C24_WitnessUnchanged ==
    /\ ChangeCalculated
    /\ CompletedOf(current_data.district_data, "Talab Nirman") = 5 * Scale
    /\ CompletedOf(previous_data.district_data, "Talab Nirman") = 5 * Scale
    /\ MarksOf(current_data.district_data, "Talab Nirman") = PyFloat(1000)
    /\ MarksOf(previous_data.district_data, "Talab Nirman") = PyFloat(1000)
    /\ DOMAIN individual_work_type_changes = {}

-----------------------------------------------------------------------------
(* the selected district's record                                          *)

\* the current date has been fetched and processed by
\* _fetch_and_process_data_for_date of analyze_old_works.py
OldWorksCurrentProcessed ==
    /\ pc \in {"old_works_fetch_previous", "old_works_compute", "old_works_done"}
    /\ Len(block_list) > 0

\* the entries of the current date's state list whose trimmed, upper-cased
\* name is the trimmed, upper-cased requested name
NameMatches ==
    LET state_results_raw == ResultsOf(responses.current[1].state)
    IN  {i \in 1..Len(state_results_raw) :
            /\ state_results_raw[i].t = "dict"
            /\ state_results_raw[i].name.t = "str"
            /\ StripUpper(state_results_raw[i].name.s) = StripUpper(input.district_name.s)}

\* C25: whenever the state-wide list of a date contains a record whose
\* trimmed, upper-cased name equals the trimmed, upper-cased requested
\* district name, district_data of that date is the processed form of that
\* record and is not null.
C25_SelectedDistrictFoundAfterNormalization ==
    (OldWorksCurrentProcessed /\ NameMatches # {}) =>
        /\ current_data.district_data # PyNone
        /\ current_data.district_data =
               process_district_perf_data(
                   ResultsOf(responses.current[1].state)[
                       CHOOSE i \in NameMatches : \A j \in NameMatches : i <= j])

\* the same, for records whose name is already trimmed and upper-cased: the
\* comparison of line 151 is an exact one
C25_SelectedDistrictFoundWhenExact ==
    (/\ OldWorksCurrentProcessed
     /\ \E i \in NameMatches :
           ResultsOf(responses.current[1].state)[i].name.s = StripUpper(input.district_name.s)) =>
        current_data.district_data # PyNone

\* the request is 'bhopal', upstream names the district 'Bhopal', and the
\* result has been returned
C25_UpstreamMixedCase ==
    /\ pc = "old_works_done"
    /\ Len(block_list) > 0
    /\ NameMatches # {}
    /\ \A i \in NameMatches : ResultsOf(responses.current[1].state)[i].name.s = "Bhopal"
    /\ input.district_name.s = "bhopal"

-----------------------------------------------------------------------------
(* blocks without data of the previous day                                 *)

\* analyze of analyze_old_works.py has returned a result built from both
\* dates
OldWorksCompared == pc = "old_works_done" /\ Len(block_list) > 0

\* the previous day's block data has no entry of that block: the block
\* fetch failed, or its results do not name the block
PreviousBlockMissing(block_name) ==
    BlockRawData(ResultsOf(responses.previous[1].blocks), block_name) = PyNone

\* C26: in the old-works block breakdown, a block for which the previous
\* day's block data is missing has no day-over-day change equal to today's
\* full count reported for it: its previous count is not taken to be 0.
C26_MissingPreviousNotTakenAsZero ==
    OldWorksCompared =>
        \A i \in 1..Len(output.block_level_comparison) :
            LET entry == output.block_level_comparison[i]
            IN  PreviousBlockMissing(entry.name) =>
                    \A c \in DOMAIN entry.completed_works_change_by_type :
                        entry.completed_works_change_by_type[c].v
                            # CountOfCategory(entry.completed_works_by_type_till_today, c).v

\* the previous day's block fetch failed and BERASIA has 4 completed works
\* of "Talab Nirman" today: the change reported for it is 4
C26_PreviousBlockFetchFailed ==
    /\ OldWorksCompared
    /\ responses.previous[1].blocks = NullResponse
    /\ \E i \in 1..Len(output.block_level_comparison) :
          /\ output.block_level_comparison[i].name = "BERASIA"
          /\ "Talab Nirman" \in DOMAIN output.block_level_comparison[i].completed_works_change_by_type
          /\ output.block_level_comparison[i].completed_works_change_by_type["Talab Nirman"]
                 = PyInt(4)

\* farm ponds and dugwell: a block of today that the previous day's blocks
\* do not name has actual_count_daybefore "N/A"
C26_ComponentPreviousNotAvailable ==
    pc = "component_done" =>
        \A i \in 1..Len(output.block_level_comparison) :
            LET entry == output.block_level_comparison[i]
            IN  (\A j \in 1..Len(previous_data.block_level_data) :
                    previous_data.block_level_data[j].name # entry.name)
                    => entry.actual_count_daybefore = NA

-----------------------------------------------------------------------------
(* analyze_mybharat.py and analyze_amrit_sarovar.py                        *)

\* isinstance(x, str)
IsStr(x) == x.t \in {"str_int", "str_dec", "str_inf", "str_Inf", "str_nan", "str_bad", "na"}

\* achievement_percentage of process_mybharat_data (lines 165-172): a string
\* other than "N/A" is converted by float(), "N/A" when that fails; a value
\* that is no number becomes "N/A"
MyBharatAchievement(ach_perc) ==
    IF IsStr(ach_perc) /\ ach_perc # NA
    THEN IF IsExc(PyFloatOf(ach_perc)) THEN NA ELSE PyFloatOf(ach_perc)
    ELSE IF ~IsNumber(ach_perc) THEN NA
    ELSE ach_perc

\* process_mybharat_data(data); the keys 'district', 'total_count' and
\* 'achievement_percent' of the response are the fields name, actual_count
\* and achievement_percentage of the raw entry
process_mybharat_data(data) ==
    IF data.t = "empty" THEN PyNone
    ELSE [name |-> data.name,
          actual_count |-> safe_get(data.actual_count, PyInt(0)),
          target |-> IF safe_get(data.target, NA) = NA THEN PyNone ELSE data.target,
          achievement_percentage |->
              MyBharatAchievement(safe_get(data.achievement_percentage, NA)),
          marks |-> safe_get(data.marks, PyFloat(0))]

\* process_amrit_sarovar_district_data(data)
process_amrit_sarovar_district_data(data) ==
    IF data.t = "empty" THEN PyNone
    ELSE [name |-> data.name,
          actual_count |-> safe_get(data.actual_count, PyInt(0)),
          target |-> safe_get(data.target, NA),
          marks |-> IF IsNumber(safe_get(data.marks, PyNone)) THEN data.marks ELSE NA]

\* the processing function of the component
ProcessSingle(component, data) ==
    IF component = "mybharat" THEN process_mybharat_data(data)
    ELSE process_amrit_sarovar_district_data(data)

\* get_top_bottom_performers_full / get_top_bottom_by_count_full on the raw
\* state list
RawTopBottom(state_results, key) ==
    get_top_bottom_by_field(
        [i \in 1..Len(state_results) |->
            [key |-> safe_get(state_results[i][key], PyNone),
             name |-> state_results[i].name,
             item |-> state_results[i]]],
        TRUE)

\* valid_score_districts of analyze_amrit_sarovar.py (line 101)
ValidScoreDistricts(state_results) ==
    SelectSeq(state_results, LAMBDA d : IsNumber(safe_get(d.marks, PyNone)))

\* {"top_performer": ..., "bottom_performer": ...} of one comparison
SinglePerformers(component, comparison) ==
    [top_performer |-> IF comparison.top # PyNone
                       THEN ProcessSingle(component, comparison.top) ELSE PyNone,
     bottom_performer |-> IF comparison.bottom # PyNone
                          THEN ProcessSingle(component, comparison.bottom) ELSE PyNone]

\* state_level_comparison (lines 75-90 of analyze_mybharat.py, 99-117 of
\* analyze_amrit_sarovar.py)
StateLevelComparison(component, state_results) ==
    [by_score |-> SinglePerformers(component,
                      RawTopBottom(IF component = "mybharat" THEN state_results
                                   ELSE ValidScoreDistricts(state_results), "marks")),
     by_count |-> SinglePerformers(component, RawTopBottom(state_results, "actual_count"))]

\* the exception format(value, '.2f') or format(value, ',') raises, None
\* when it raises none
FormatRaises(value) ==
    IF IsNumber(value) THEN PyNone
    ELSE IF value.t = "other" THEN TypeError
    ELSE ValueError

\* the exception raised while the sentence about the district is built
\* (lines 98-104 of analyze_mybharat.py: score, then actual; lines 124-128
\* of analyze_amrit_sarovar.py: actual, then target unless it is "N/A"),
\* None when there is none
DistrictSentenceRaises(component, district_data) ==
    IF district_data = PyNone THEN PyNone
    ELSE IF component = "mybharat"
    THEN IF FormatRaises(district_data.marks) # PyNone THEN FormatRaises(district_data.marks)
         ELSE FormatRaises(district_data.actual_count)
    ELSE IF FormatRaises(district_data.actual_count) # PyNone
         THEN FormatRaises(district_data.actual_count)
         ELSE IF district_data.target # NA THEN FormatRaises(district_data.target)
         ELSE PyNone

\* the sentences of the explanation, by kind
SingleExplanation(component, district_data, comparison) ==
    <<IF district_data # PyNone THEN "district" ELSE "warning">>
    \o (IF component = "mybharat" THEN <<"limitations">> ELSE <<>>)
    \o <<IF comparison.by_score.top_performer # PyNone
            /\ comparison.by_score.bottom_performer # PyNone
         THEN "by_score" ELSE "by_score_undetermined">>
    \o <<IF comparison.by_count.top_performer # PyNone
            /\ comparison.by_count.bottom_performer # PyNone
         THEN "by_count" ELSE "by_count_undetermined">>

NoPerformers == [top_performer |-> PyNone, bottom_performer |-> PyNone]

\* analysis_result as initialised (lines 32-43 of analyze_mybharat.py, 50-61
\* of analyze_amrit_sarovar.py), with explanation, district_data and
\* state_level_comparison as given
SingleResult(component, district_name, report_date, explanation, district_data, comparison) ==
    [component |-> component,
     selected_district |-> district_name,
     report_date |-> report_date,
     explanation |-> explanation,
     district_data |-> district_data,
     state_level_comparison |-> comparison]

\* the result returned when the state list is empty (lines 52-55 of
\* analyze_mybharat.py, 69-73 of analyze_amrit_sarovar.py)
SingleFailure(component, district_name, report_date) ==
    SingleResult(component, district_name, report_date, <<"error">>, PyNone,
                 [by_score |-> NoPerformers, by_count |-> NoPerformers])

\* district_data: the processed form of the record find_district_data finds
SingleDistrictData(component, state_results, district_name_upper) ==
    IF find_district_data(state_results, district_name_upper) = PyNone THEN PyNone
    ELSE ProcessSingle(component, find_district_data(state_results, district_name_upper))

\* steps 2 to 5 of analyze on a non-empty state list: the result, or the
\* exception that escapes
SingleAnalysis(component, district_name, report_date, state_results) ==
    LET district_data ==
            SingleDistrictData(component, state_results, StripUpper(district_name))
    IN  IF DistrictSentenceRaises(component, district_data) # PyNone
        THEN DistrictSentenceRaises(component, district_data)
        ELSE SingleResult(component, district_name, report_date,
                 SingleExplanation(component, district_data,
                                   StateLevelComparison(component, state_results)),
                 district_data, StateLevelComparison(component, state_results))

-----------------------------------------------------------------------------
(* analyze of analyze_mybharat.py and analyze_amrit_sarovar.py on small     *)
(* inputs                                                                  *)

SingleDateArgs == {"mybharat", "amrit_sarovar"}

\* what the one fetch of the state list may return
SingleStateResponses ==
    {NullResponse,
     ListResponse(<<>>),
     ListResponse(<<EmptyCompItem>>),
     ListResponse(<<NonDictCompItem>>),
     ListResponse(<<Entry(NameStr("Bhopal"), PyFloat(7500), PyInt(7))>>),
     ListResponse(<<Entry(NameStr("BHOPAL"), StrDec(7500), PyInt(7))>>),
     ListResponse(<<Entry(NameStr("BHOPAL"), PyFloat(7500), StrInt(7))>>),
     ListResponse(<<CompItem(NameStr("BHOPAL"), PyFloat(7500), PyInt(7), StrBad, StrInf)>>),
     ListResponse(<<CompItem(NameStr("BHOPAL"), NaN, PyOther, PyNone, PyNone)>>),
     ListResponse(<<Entry(NameStr("INDORE"), PyFloat(8000), PyInt(4))>>),
     ListResponse(<<Entry(NameStr("INDORE"), PyFloat(8000), PyInt(4)),
                    Entry(NameStr(" BHOPAL "), PyFloat(5000), PyInt(9)),
                    Entry(NameStr("SAGAR"), PosInf, PyInt(4))>>),
     ListResponse(<<Entry(NameStr("BHOPAL"), PyFloat(8000), PyInt(2)),
                    EmptyCompItem,
                    Entry(NameStr(""), PyFloat(9000), PyInt(6)),
                    Entry(NoName, StrBad, NaN)>>)}

InitSingle ==
    /\ pc = "single_start"
    /\ input \in [component : SingleDateArgs, district_name : ComponentDistrictArgs,
                  report_date : KpiDateArgs]
    /\ output = PyNone
    /\ PipeIdle

\* the argument checks of analyze (lines 27-29 of analyze_mybharat.py, 45-47
\* of analyze_amrit_sarovar.py)
SingleValidate ==
    /\ pc = "single_start"
    /\ pc' = IF ReturnsNoneAtEntry(input.component, input.district_name, input.report_date)
             THEN "single_aborted" ELSE "single_fetch"
    /\ UNCHANGED <<input, output, pipeVars>>

\* the fetch of the state list, the only fetch of the call (lines 45-57 of
\* analyze_mybharat.py, 63-75 of analyze_amrit_sarovar.py): an empty list
\* ends the call with an error result
SingleFetch ==
    /\ pc = "single_fetch"
    /\ \E state_data_raw \in SingleStateResponses :
          /\ responses' = [responses EXCEPT !.current = <<state_data_raw>>]
          /\ IF Len(ResultsOf(state_data_raw)) = 0
             THEN /\ pc' = "single_done"
                  /\ output' = SingleFailure(input.component, input.district_name.s,
                                             input.report_date)
             ELSE pc' = "single_compute" /\ UNCHANGED output
    /\ UNCHANGED <<input, fetching, current_data, previous_data, current_ranks, previous_ranks>>

\* the rest of analyze (lines 59-142 of analyze_mybharat.py, 77-175 of
\* analyze_amrit_sarovar.py)
SingleCompute ==
    /\ pc = "single_compute"
    /\ LET result == SingleAnalysis(input.component, input.district_name.s, input.report_date,
                                    ResultsOf(responses.current[1]))
       IN  IF result \in {ValueError, TypeError}
           THEN pc' = "single_raised" /\ UNCHANGED output
           ELSE pc' = "single_done" /\ output' = result
    /\ UNCHANGED <<input, pipeVars>>

NextSingle == SingleValidate \/ SingleFetch \/ SingleCompute

SpecSingle == InitSingle /\ [][NextSingle]_vars

-----------------------------------------------------------------------------
(* the phases of a component aggregator                                    *)

\* the records of both dates have been fetched
BothDatesFetched == Len(responses.current) = 1 /\ Len(responses.previous) = 1

\* a comparison output of MyBharat or Amrit Sarovar has been computed
SingleComparisonComputed ==
    /\ pc = "single_done"
    /\ output.explanation # <<"error">>

\* C27: an invocation of the MyBharat or Amrit Sarovar aggregator with
\* valid inputs fetches the records of the report date and of the day
\* before, and only then computes its comparison output: no comparison
\* output exists before both dates have been fetched.
C27_BothDatesFetchedBeforeCompute ==
    (pc \in {"single_compute", "single_raised"} \/ SingleComparisonComputed) => BothDatesFetched

\* MyBharat has returned its state-level comparison after the single fetch
\* of the report date; no record of the day before was fetched
C27_ComputedAfterOneFetch ==
    /\ SingleComparisonComputed
    /\ input.component = "mybharat"
    /\ output.state_level_comparison.by_score.top_performer # PyNone
    /\ Len(responses.current) = 1
    /\ Len(responses.previous) = 0

\* farm ponds and dugwell: the compute phase starts, and a result exists,
\* only after both dates have been fetched
C27_ComponentTwoPhases ==
    /\ pc \in {"component_compute", "component_done"} => BothDatesFetched
    /\ output # PyNone => pc = "component_done"
    /\ pc = "component_fetch_previous" => Len(responses.current) = 1

\* old works: the comparison is computed only after both dates have been
\* fetched; the only result without them is the block-list failure
C27_OldWorksTwoPhases ==
    /\ pc = "old_works_compute" => BothDatesFetched
    /\ (pc = "old_works_done" /\ Len(block_list) > 0) => BothDatesFetched
    /\ output # PyNone => pc = "old_works_done"

-----------------------------------------------------------------------------
(* the selected district's position against the state                      *)

\* count_comparison of the result
CountComparison == output.selected_district_position_vs_state.count_comparison

\* the counts of the processed state list of the current date
StateCounts == Column(current_data.state_results_processed, "actual_count")

\* analyze has returned a count_comparison made of position labels for a
\* district whose record was found
CountPositionLabelled ==
    /\ pc = "component_done"
    /\ current_data.district_data # PyNone
    /\ CountComparison.t = "joined"

\* the words of a label
LabelParts(label) == {label.parts[i] : i \in 1..Len(label.parts)}

\* the position of the int x against the exact quotient q, in the words of
\* the labels
TruePosition(x, q, stat) ==
    IF x.v * q.den > q.num THEN <<"Above", stat>>
    ELSE IF x.v * q.den < q.num THEN <<"Below", stat>>
    ELSE <<"Equal to", stat>>

\* the label "Above <stat>", "Below <stat>" or "Equal to <stat>" by its words
LabelWords(part) ==
    CASE part = "Above Mean" -> <<"Above", "Mean">>
      [] part = "Below Mean" -> <<"Below", "Mean">>
      [] part = "Equal to Mean" -> <<"Equal to", "Mean">>
      [] part = "Above Median" -> <<"Above", "Median">>
      [] part = "Below Median" -> <<"Below", "Median">>
      [] part = "Equal to Median" -> <<"Equal to", "Median">>

\* C28: count_comparison is the mean part and the median part joined by
\* ' / ', the median part being 'Above Median' exactly when the district's
\* count is greater than the median of the state-wide counts of the current
\* date, 'Below Median' exactly when it is smaller and 'Equal to Median'
\* exactly when it is equal, and likewise the mean part for the mean.
C28_PositionLabelReflectsComparison ==
    CountPositionLabelled =>
        /\ Len(CountComparison.parts) = 2
        /\ LabelWords(CountComparison.parts[1])
               = TruePosition(current_data.district_data.actual_count,
                              MeanQ(StateCounts), "Mean")
        /\ LabelWords(CountComparison.parts[2])
               = TruePosition(current_data.district_data.actual_count,
                              MedianQ(StateCounts), "Median")

\* the same against the statistics as the result reports them, the mean
\* rounded to 2 places and the median to 0 places: this holds
C28_PositionLabelAgainstReportedStatistics ==
    CountPositionLabelled =>
        /\ Len(CountComparison.parts) = 2
        /\ LabelWords(CountComparison.parts[1])
               = TruePosition(current_data.district_data.actual_count,
                              [num |-> output.state_statistics_today.count.mean.v, den |-> 1],
                              "Mean")
        /\ LabelWords(CountComparison.parts[2])
               = TruePosition(current_data.district_data.actual_count,
                              [num |-> output.state_statistics_today.count.median.v, den |-> 1],
                              "Median")

\* the state-wide counts are 3 and 4, their median is 3.5, and the district
\* with count 4 is labelled "Equal to Median"
C28_EqualToRoundedMedian ==
    /\ CountPositionLabelled
    /\ StateCounts = <<PyInt(3), PyInt(4)>>
    /\ current_data.district_data.actual_count = PyInt(4)
    /\ CountComparison.parts = <<"Above Mean", "Equal to Median">>

-----------------------------------------------------------------------------
(* the rank KPI and the rank map                                            *)

\* analyze of analyze_district_kpis.py has returned its result
KpiReturned == pc = "done"

RankKpi == output.kpis.rank

TopPerformer == output.state_context.total_marks_stats.top_performer

\* C29: in every KPI result, total_districts_ranked_today is the number of
\* districts in the current date's rank map; kpis.rank.current, when it is
\* not null, is at least 1 and at most total_districts_ranked_today; the
\* state context's top_performer, when it is not null, is a district of
\* rank 1.
C29_RankWithinTotal ==
    KpiReturned =>
        /\ RankKpi.total_districts_ranked_today = Cardinality(DOMAIN current_ranks)
        /\ RankKpi.current # PyNone =>
               \E r \in 1..RankKpi.total_districts_ranked_today : RankKpi.current = PyInt(r)
        /\ TopPerformer # PyNone =>
               /\ TopPerformer.name \in DOMAIN current_ranks
               /\ current_ranks[TopPerformer.name] = 1

\* three districts are ranked, the selected district is not the first of
\* them, and another district is the top performer
C29_Witness ==
    /\ KpiReturned
    /\ RankKpi.total_districts_ranked_today >= 2
    /\ RankKpi.current # PyNone
    /\ RankKpi.current # PyInt(1)
    /\ TopPerformer # PyNone
    /\ TopPerformer.name # output.district_name

-----------------------------------------------------------------------------
(* jsm_dashboard_generator.py: process_kpi_data                            *)

\* trend_icon and trend_class of a change (e.g. lines 548-549): the class
\* "trend-up" goes with the rising icon, "trend-down" with the falling one
TrendClass(change) ==
    IF Truthy(change) /\ PyLt(PyInt(0), change) THEN "trend-up"
    ELSE IF Truthy(change) /\ PyLt(change, PyInt(0)) THEN "trend-down"
    ELSE "trend-neutral"

\* value if it is a number, else the replacement
NumberOr(value, replacement) == IF IsNumber(value) THEN value ELSE replacement

\* processed_kpis["total_marks"] (lines 544-552)
ProcessedTotalMarks(total_marks, total_marks_stats) ==
    [current |-> IF IsNumber(total_marks.current) THEN PyRound2(total_marks.current) ELSE NA,
     previous |-> IF IsNumber(total_marks.previous) THEN PyRound2(total_marks.previous) ELSE NA,
     change |-> IF IsNumber(total_marks.change) THEN PyRound2(total_marks.change)
                ELSE PyInt(0),
     trend_class |-> TrendClass(total_marks.change),
     grade |-> get_grade_label(NumberOr(total_marks.current, PyInt(0)), PyInt(100),
                               StatsDict(total_marks_stats.average, total_marks_stats.median)),
     grade_class |-> get_grade_class(NumberOr(total_marks.current, PyInt(0)), PyInt(100),
                               StatsDict(total_marks_stats.average, total_marks_stats.median))]

\* processed_kpis["rank"] (lines 556-561)
ProcessedRank(rank) ==
    [current |-> rank.current,
     previous |-> rank.previous,
     change |-> rank.change,
     total_districts |-> rank.total_districts_ranked_today]

\* the entry of a count KPI (lines 569-578, 586-595, 603-612, 623-632 and
\* 640-649)
ProcessedCountKpi(kpi) ==
    [completed |-> NumberOr(kpi.current, PyInt(0)),
     previous |-> kpi.previous,
     change |-> kpi.change,
     trend_class |-> TrendClass(kpi.change),
     marks |-> PyInt(0),
     grade |-> "N/A",
     grade_class |-> "grade-badge"]

\* x + y of two statistics read by .get(key, 0): the key is present, so None
\* is read as None, and None + y raises TypeError
StatSum(x, y) == IF x = PyNone \/ y = PyNone THEN TypeError ELSE PyAdd(x, y)

\* old_work_stats (lines 618-621), or the exception that escapes
old_work_stats(component_stats) ==
    LET average == StatSum(component_stats.performance_target.average,
                           component_stats.performance_payment.average)
        median == StatSum(component_stats.performance_target.median,
                          component_stats.performance_payment.median)
    IN  IF average = TypeError \/ median = TypeError THEN TypeError
        ELSE [average |-> average, median |-> median]

\* process_kpi_data(kpi_data) on a result of analyze, or the exception that
\* escapes; current_datetime, the time of the call, is left out
process_kpi_data(kpi_data) ==
    IF old_work_stats(kpi_data.state_context.component_stats) = TypeError THEN TypeError
    ELSE [district_name |-> kpi_data.district_name,
          kpi |-> [total_marks |-> ProcessedTotalMarks(kpi_data.kpis.total_marks,
                                       kpi_data.state_context.total_marks_stats),
                   rank |-> ProcessedRank(kpi_data.kpis.rank),
                   farm_ponds |-> ProcessedCountKpi(kpi_data.kpis.farm_ponds_completed),
                   dugwell |-> ProcessedCountKpi(kpi_data.kpis.dugwell_recharge_completed),
                   amrit_sarovar |-> ProcessedCountKpi(kpi_data.kpis.amrit_sarovar_completed),
                   old_work |-> ProcessedCountKpi(kpi_data.kpis.old_work_completed),
                   mybharat |-> ProcessedCountKpi(kpi_data.kpis.mybharat_completed)],
          state_context |-> kpi_data.state_context]

\* process_kpi_data(kpi_data) called with the result analyze returned
ProcessKpiData ==
    /\ pc = "done"
    /\ IF process_kpi_data(output) = TypeError
       THEN pc' = "process_kpi_data_raised" /\ UNCHANGED output
       ELSE pc' = "process_kpi_data_returned" /\ output' = process_kpi_data(output)
    /\ UNCHANGED <<input, pipeVars>>

NextDashboard == NextKpi \/ ProcessKpiData

SpecDashboard == InitKpi /\ [][NextDashboard]_vars

\* the component statistics of the state context of the current date
ComponentStatsToday == StateContext(current_data.all_districts_processed).component_stats

\* C30: process_kpi_data completes without raising for every result that
\* analyze of analyze_district_kpis.py can return, including a result whose
\* performance_target and performance_payment statistics are null.
C30_ProcessKpiDataNeverRaises == pc # "process_kpi_data_raised"

\* it raises only when a performance statistic of the state context is
\* null, and then always
C30_RaisesOnNullPerformanceStatistics ==
    pc \in {"process_kpi_data_raised", "process_kpi_data_returned"} =>
        (pc = "process_kpi_data_raised"
            <=> \/ ComponentStatsToday.performance_target.average = PyNone
                \/ ComponentStatsToday.performance_payment.average = PyNone)

\* analyze returned a result for a date without any data, all statistics of
\* the state context being null, and process_kpi_data raised
C30_RaisedWithoutData ==
    /\ pc = "process_kpi_data_raised"
    /\ Len(current_data.all_districts_processed) = 0
    /\ ComponentStatsToday.performance_target = NoStats
    /\ ComponentStatsToday.performance_payment = NoStats

\* process_kpi_data returned for a date with performance data
C30_ReturnedWithPerformanceData ==
    /\ pc = "process_kpi_data_returned"
    /\ output.kpi.rank.current # PyNone

====
